---- MODULE Spec2Model ----
(***************************************************************************)
(* PieWrappedERC20: a wrapped ERC-20 token with EIP-3009 authorizations    *)
(* (transferWithAuthorization, receiveWithAuthorization,                   *)
(* cancelAuthorization) and 1:1 deposit / redeem against an underlying     *)
(* token.  Each external function is an operator from the storage it is    *)
(* called on to its outcome (the error it reverts with, or the storage it  *)
(* leaves), and an action that applies the outcome; a call that reverts    *)
(* leaves the storage and the event log as they were.                      *)
(***************************************************************************)
EXTENDS Integers, Sequences, FiniteSets, TLC

\* ------------------------------------------------------------------ bounds
MaxTime == 4
MaxFunds == 2

\* ------------------------------------------------------------- input sets
\* Accounts holding tokens and signing authorizations.
Addr == {"A", "B"}
Nonce == {"n1", "n2"}
Time == 0..MaxTime
\* <<validAfter, validBefore>> of the submitted authorizations: the clock
\* 0..MaxTime lies before, on, inside and after the window <<1, 3>>, and
\* strictly inside the inverted one (validAfter 3, validBefore 1).
Windows == {<<1, 3>>, <<3, 1>>}
\* The amount of an authorization: one unit, which the payer's balance
\* 0..MaxFunds lies below, at and above.
Value == {1}
Amount == 0..MaxFunds
Key == Addr \X Nonce

\* An address no account of the model owns: what ecrecover yields for a
\* signature that was not made over the digest it is checked against.
Unrelated == "0xUnrelated"

\* -------------------------------------------------------------- variables
VARIABLES
  authState,      \* _authorizationStates[authorizer][nonce]
  balances,       \* ERC20 balanceOf of the wrapped token
  totalSupply,    \* ERC20 totalSupply of the wrapped token
  uBal,           \* underlying.balanceOf(account)
  reserves,       \* underlying.balanceOf(address(this))
  now,            \* block.timestamp
  usedLog,        \* AuthorizationUsed events emitted, per (authorizer, nonce)
  canceledLog,    \* AuthorizationCanceled events emitted, per (authorizer, nonce)
  movedLog,       \* _transfer executions made under an authorization, per (from, nonce)
  reentrancyStatus, \* ReentrancyGuard's _status
  pendingRedeem,  \* the redeem call whose external release is in progress, if any
  buyPc,          \* where the /buy handler stands: idle, verify, settle, done
  buyReq,         \* req.body of the /buy request being handled
  verifyData,     \* the facilitator's /verify response
  settleData,     \* the facilitator's /settle response
  buyResponse,    \* the HTTP response of /buy
  buyCalls,       \* calls made for the request: /verify, /settle, ledger submissions
  coffees,        \* balances[address].coffees of the resource server
  settledAmount,  \* per payer, the sum of `amount` over the requests whose /settle succeeded
  lastVerify,     \* the last /verify call answered, while nothing happened since
  facPc,          \* per /settle worker of the facilitator: its orchestrator state
  facReq,         \* per worker: the settle request it handles
  facOut,         \* per worker: the response so far and the receipt built
  receiptSeq,     \* the receipt sequence counter
  issued,         \* the receipts built, in the order they were built
  backups,        \* the local backup copies of receipts
  stored,         \* the objects of the storage network, in the order written
  attempts        \* the receiptIds for which a remote publish was attempted

ledgerVars == <<authState, balances, totalSupply, uBal, reserves>>
logVars == <<usedLog, canceledLog, movedLog>>
guardVars == <<reentrancyStatus, pendingRedeem>>
buyVars == <<buyPc, buyReq, verifyData, settleData, buyResponse, buyCalls, coffees, settledAmount>>
verifyVars == <<lastVerify>>
receiptVars == <<facPc, facReq, facOut, receiptSeq, issued, backups, stored, attempts>>
vars == <<authState, balances, totalSupply, uBal, reserves, now, usedLog, canceledLog, movedLog,
          reentrancyStatus, pendingRedeem,
          buyPc, buyReq, verifyData, settleData, buyResponse, buyCalls, coffees, settledAmount, lastVerify,
          facPc, facReq, facOut, receiptSeq, issued, backups, stored, attempts>>

OK == "ok"

\* ------------------------------------------------------------- EIP-712
TRANSFER_WITH_AUTHORIZATION_TYPEHASH == "TransferWithAuthorization"
RECEIVE_WITH_AUTHORIZATION_TYPEHASH == "ReceiveWithAuthorization"
CANCEL_AUTHORIZATION_TYPEHASH == "CancelAuthorization"

\* The domain separator of this deployment (name, version, chain id,
\* verifying contract) and that of another deployment.
DOMAIN_SEPARATOR == "pieUSD/1/97/this"
OtherDomain == "pieUSD/1/56/other"
Domains == {DOMAIN_SEPARATOR, OtherDomain}

\* keccak256(abi.encode(typehash, from, to, value, validAfter, validBefore, nonce)):
\* injective, so the struct hash is the tuple of what was encoded.
AuthStructHash(typehash, from, to, value, validAfter, validBefore, nonce) ==
  <<typehash, from, to, value, validAfter, validBefore, nonce>>

\* keccak256(abi.encode(CANCEL_AUTHORIZATION_TYPEHASH, authorizer, nonce))
CancelStructHash(authorizer, nonce) ==
  <<CANCEL_AUTHORIZATION_TYPEHASH, authorizer, nonce>>

\* _hashTypedDataV4(structHash) of a contract whose domain separator is `domain`.
HashTypedData(domain, structHash) == <<domain, structHash>>

_hashTypedDataV4(structHash) == HashTypedData(DOMAIN_SEPARATOR, structHash)

\* An ECDSA signature (v, r, s) made with the key of `signer` over `digest`.
Sign(signer, digest) == [v |-> 27, r |-> signer, s |-> digest]

\* walletClient.signTypedData({account, domain, types, primaryType, message}):
\* the wallet signs the EIP-712 hash of the typed message under the domain.
signTypedData(account, domain, primaryType, message) ==
  Sign(account, <<domain, <<primaryType>> \o message>>)

\* digest.recover(v, r, s): the signer when the signature was made over this
\* digest, an unrelated address otherwise.
RecoverVRS(digest, v, r, s) ==
  IF v \in {27, 28} /\ s = digest THEN r ELSE Unrelated

\* The packed 65-byte encoding r || s || v of a signature.
Packed(sig) == <<sig.r, sig.s, sig.v>>

\* Mutant: the last byte of the packed form is taken as the recovery id 0
\* or 1 rather than as v.
Mutant_RecoverPacked_RecoveryId(digest, signature) ==
  RecoverVRS(digest, signature[3] - 27, signature[1], signature[2])

\* digest.recover(signature): reads r, s and v out of the 65 bytes.
RecoverPacked(digest, signature) ==
  RecoverVRS(digest, signature[3], signature[1], signature[2])

\* ------------------------------------------------------- contract storage
\* The storage and event log a call works on; a revert restores it.
Pre ==
  [auth |-> authState, bal |-> balances, supply |-> totalSupply,
   ubal |-> uBal, reserves |-> reserves,
   used |-> usedLog, canceled |-> canceledLog, moved |-> movedLog]

\* A call that reverted with `reason`: every write it made is undone.
Reverted(reason) == [reason |-> reason, st |-> Pre]

\* A call that returned, leaving storage `st`.
Returned(st) == [reason |-> OK, st |-> st]

\* Mutant: the nonce check is left out.
Mutant_requireUnusedAuthorization(st, authorizer, nonce) == OK

\* Mutant: the registry is looked up by the nonce alone, whoever the
\* authorizer is.
Mutant_requireUnusedAuthorization_ByNonce(st, authorizer, nonce) ==
  IF \E a \in Addr : st.auth[<<a, nonce>>] THEN "AuthorizationAlreadyUsed" ELSE OK

_requireUnusedAuthorization(st, authorizer, nonce) ==
  IF st.auth[<<authorizer, nonce>>] THEN "AuthorizationAlreadyUsed" ELSE OK

\* Mutant: the window is open on neither end (now <= validAfter and
\* now >= validBefore revert).
Mutant_requireValidAuthorization_Strict(st, authorizer, nonce, validAfter, validBefore) ==
  IF now <= validAfter THEN "AuthorizationNotYetValid"
  ELSE IF now >= validBefore THEN "AuthorizationExpired"
  ELSE _requireUnusedAuthorization(st, authorizer, nonce)

\* Mutant: the nonce is checked before the window.
Mutant_requireValidAuthorization_NonceFirst(st, authorizer, nonce, validAfter, validBefore) ==
  IF _requireUnusedAuthorization(st, authorizer, nonce) # OK
  THEN _requireUnusedAuthorization(st, authorizer, nonce)
  ELSE IF now < validAfter THEN "AuthorizationNotYetValid"
  ELSE IF now > validBefore THEN "AuthorizationExpired"
  ELSE OK

_requireValidAuthorization(st, authorizer, nonce, validAfter, validBefore) ==
  IF now < validAfter THEN "AuthorizationNotYetValid"
  ELSE IF now > validBefore THEN "AuthorizationExpired"
  ELSE _requireUnusedAuthorization(st, authorizer, nonce)

\* Mutant: the event is emitted but the nonce is not marked.
Mutant_executeAuthorization_NoMark(st, authorizer, to, value, nonce) ==
  [st EXCEPT !.used[<<authorizer, nonce>>] = @ + 1]

_executeAuthorization(st, authorizer, to, value, nonce) ==
  [st EXCEPT !.auth[<<authorizer, nonce>>] = TRUE,
             !.used[<<authorizer, nonce>>] = @ + 1]

\* Mutant: the transfer credits `to` without debiting `from`.
Mutant_transfer_CreditOnly(st, from, to, value) ==
  IF st.bal[from] < value
  THEN [reason |-> "ERC20InsufficientBalance", st |-> st]
  ELSE [reason |-> OK, st |-> [st EXCEPT !.bal[to] = @ + value]]

\* ERC20._transfer: reverts when `from` holds less than `value`.
_transfer(st, from, to, value) ==
  IF st.bal[from] < value
  THEN [reason |-> "ERC20InsufficientBalance", st |-> st]
  ELSE [reason |-> OK,
        st |-> [st EXCEPT !.bal[from] = @ - value, !.bal[to] = @ + value]]

\* Mutant: the recovered signer is not compared with `from`.
Mutant_Authorized_NoSignerCheck(from, to, value, validAfter, validBefore, nonce, signer) ==
  LET chk == _requireValidAuthorization(Pre, from, nonce, validAfter, validBefore)
  IN  IF chk # OK THEN Reverted(chk)
      ELSE LET st1 == _executeAuthorization(Pre, from, to, value, nonce)
               t == _transfer(st1, from, to, value)
           IN  IF t.reason # OK THEN Reverted(t.reason)
               ELSE Returned([t.st EXCEPT !.moved[<<from, nonce>>] = @ + 1])

\* Mutant: the nonce is marked before the signature is checked, and a bad
\* signature makes the call return early instead of reverting.
Mutant_Authorized_MarkThenReturn(from, to, value, validAfter, validBefore, nonce, signer) ==
  LET chk == _requireValidAuthorization(Pre, from, nonce, validAfter, validBefore)
      st1 == _executeAuthorization(Pre, from, to, value, nonce)
  IN  IF chk # OK THEN Reverted(chk)
      ELSE IF signer # from THEN [reason |-> "InvalidAuthorization", st |-> st1]
      ELSE LET t == _transfer(st1, from, to, value)
           IN  IF t.reason # OK THEN Reverted(t.reason)
               ELSE Returned([t.st EXCEPT !.moved[<<from, nonce>>] = @ + 1])

\* Mutant: the result of the token transfer is not checked, so a transfer
\* that fails leaves the call to return with the nonce marked.
Mutant_Authorized_UncheckedTransfer(from, to, value, validAfter, validBefore, nonce, signer) ==
  LET chk == _requireValidAuthorization(Pre, from, nonce, validAfter, validBefore)
  IN  IF chk # OK THEN Reverted(chk)
      ELSE IF signer # from THEN Reverted("InvalidAuthorization")
      ELSE LET st1 == _executeAuthorization(Pre, from, to, value, nonce)
               t == _transfer(st1, from, to, value)
           IN  IF t.reason # OK THEN Returned(st1)
               ELSE Returned([t.st EXCEPT !.moved[<<from, nonce>>] = @ + 1])

\* The body the overloads of transferWithAuthorization and
\* receiveWithAuthorization share, from _requireValidAuthorization on;
\* `signer` is the address recovered from the submitted signature.
Authorized(from, to, value, validAfter, validBefore, nonce, signer) ==
  LET chk == _requireValidAuthorization(Pre, from, nonce, validAfter, validBefore)
  IN  IF chk # OK THEN Reverted(chk)
      ELSE IF signer # from THEN Reverted("InvalidAuthorization")
      ELSE LET st1 == _executeAuthorization(Pre, from, to, value, nonce)
               t == _transfer(st1, from, to, value)
           IN  IF t.reason # OK THEN Reverted(t.reason)
               ELSE Returned([t.st EXCEPT !.moved[<<from, nonce>>] = @ + 1])

TransferDigest(from, to, value, validAfter, validBefore, nonce) ==
  _hashTypedDataV4(AuthStructHash(TRANSFER_WITH_AUTHORIZATION_TYPEHASH,
                                  from, to, value, validAfter, validBefore, nonce))

\* Mutant: receiveWithAuthorization hashes with the type of
\* transferWithAuthorization.
Mutant_ReceiveDigest_TransferType(from, to, value, validAfter, validBefore, nonce) ==
  _hashTypedDataV4(AuthStructHash(TRANSFER_WITH_AUTHORIZATION_TYPEHASH,
                                  from, to, value, validAfter, validBefore, nonce))

ReceiveDigest(from, to, value, validAfter, validBefore, nonce) ==
  _hashTypedDataV4(AuthStructHash(RECEIVE_WITH_AUTHORIZATION_TYPEHASH,
                                  from, to, value, validAfter, validBefore, nonce))

CancelDigest(authorizer, nonce) ==
  _hashTypedDataV4(CancelStructHash(authorizer, nonce))

\* transferWithAuthorization(from, to, value, validAfter, validBefore, nonce, v, r, s)
transferWithAuthorizationVRS(from, to, value, validAfter, validBefore, nonce, sig) ==
  Authorized(from, to, value, validAfter, validBefore, nonce,
             RecoverVRS(TransferDigest(from, to, value, validAfter, validBefore, nonce),
                        sig.v, sig.r, sig.s))

\* transferWithAuthorization(from, to, value, validAfter, validBefore, nonce, signature)
transferWithAuthorizationPacked(from, to, value, validAfter, validBefore, nonce, signature) ==
  Authorized(from, to, value, validAfter, validBefore, nonce,
             RecoverPacked(TransferDigest(from, to, value, validAfter, validBefore, nonce),
                           signature))

\* Mutant: the pull style does not check who submits.
Mutant_receiveWithAuthorizationVRS_AnyCaller(sender, from, to, value, validAfter, validBefore, nonce, sig) ==
  Authorized(from, to, value, validAfter, validBefore, nonce,
             RecoverVRS(ReceiveDigest(from, to, value, validAfter, validBefore, nonce),
                        sig.v, sig.r, sig.s))

\* receiveWithAuthorization(from, to, value, validAfter, validBefore, nonce, v, r, s)
receiveWithAuthorizationVRS(sender, from, to, value, validAfter, validBefore, nonce, sig) ==
  IF to # sender THEN Reverted("UnauthorizedReceiver")
  ELSE Authorized(from, to, value, validAfter, validBefore, nonce,
                  RecoverVRS(ReceiveDigest(from, to, value, validAfter, validBefore, nonce),
                             sig.v, sig.r, sig.s))

\* receiveWithAuthorization(from, to, value, validAfter, validBefore, nonce, signature)
receiveWithAuthorizationPacked(sender, from, to, value, validAfter, validBefore, nonce, signature) ==
  IF to # sender THEN Reverted("UnauthorizedReceiver")
  ELSE Authorized(from, to, value, validAfter, validBefore, nonce,
                  RecoverPacked(ReceiveDigest(from, to, value, validAfter, validBefore, nonce),
                                signature))

\* Mutant: a cancellation clears the nonce's entry, used or not.
Mutant_cancelAuthorization_Clear(authorizer, nonce, sig) ==
  IF RecoverVRS(CancelDigest(authorizer, nonce), sig.v, sig.r, sig.s) # authorizer
  THEN Reverted("InvalidAuthorization")
  ELSE Returned([Pre EXCEPT !.auth[<<authorizer, nonce>>] = FALSE,
                            !.canceled[<<authorizer, nonce>>] = 1])

\* Mutant: a cancellation does not check that the nonce is unused.
Mutant_cancelAuthorization_NoCheck(authorizer, nonce, sig) ==
  IF RecoverVRS(CancelDigest(authorizer, nonce), sig.v, sig.r, sig.s) # authorizer
  THEN Reverted("InvalidAuthorization")
  ELSE Returned([Pre EXCEPT !.auth[<<authorizer, nonce>>] = TRUE,
                            !.canceled[<<authorizer, nonce>>] = 1])

\* Mutant: a cancellation is accepted whoever signed it.
Mutant_cancelAuthorization_NoSignerCheck(authorizer, nonce, sig) ==
  LET chk == _requireUnusedAuthorization(Pre, authorizer, nonce)
  IN  IF chk # OK THEN Reverted(chk)
      ELSE Returned([Pre EXCEPT !.auth[<<authorizer, nonce>>] = TRUE,
                                !.canceled[<<authorizer, nonce>>] = @ + 1])

\* cancelAuthorization(authorizer, nonce, v, r, s)
cancelAuthorization(authorizer, nonce, sig) ==
  LET chk == _requireUnusedAuthorization(Pre, authorizer, nonce)
  IN  IF chk # OK THEN Reverted(chk)
      ELSE IF RecoverVRS(CancelDigest(authorizer, nonce), sig.v, sig.r, sig.s) # authorizer
           THEN Reverted("InvalidAuthorization")
      ELSE Returned([Pre EXCEPT !.auth[<<authorizer, nonce>>] = TRUE,
                                !.canceled[<<authorizer, nonce>>] = @ + 1])

\* authorizationState(authorizer, nonce)
authorizationState(authorizer, nonce) == authState[<<authorizer, nonce>>]

\* Mutant: the lookup marks the nonce it reads.
Mutant_authorizationStateCall_Marks(authorizer, nonce) ==
  [reason |-> OK, value |-> authState[<<authorizer, nonce>>],
   st |-> [Pre EXCEPT !.auth[<<authorizer, nonce>>] = TRUE]]

\* A call of authorizationState (external view): the value returned and the
\* storage it leaves.
authorizationStateCall(authorizer, nonce) ==
  [reason |-> OK, value |-> authorizationState(authorizer, nonce), st |-> Pre]

\* getReserves()
getReserves == reserves

\* ERC20._mint
_mint(st, account, value) ==
  [st EXCEPT !.supply = @ + value, !.bal[account] = @ + value]

\* ERC20._burn
_burn(st, account, value) ==
  [st EXCEPT !.bal[account] = @ - value, !.supply = @ - value]

\* underlying.safeTransferFrom(sender, address(this), amount) of a standard
\* ERC-20: reverts unless `sender` holds and has approved `amount`.
safeTransferFrom(st, sender, amount, allowance) ==
  IF st.ubal[sender] < amount \/ allowance < amount
  THEN [reason |-> "SafeERC20FailedOperation", st |-> st]
  ELSE [reason |-> OK,
        st |-> [st EXCEPT !.ubal[sender] = @ - amount, !.reserves = @ + amount]]

\* underlying.safeTransfer(sender, amount)
safeTransfer(st, to, amount) ==
  IF st.reserves < amount
  THEN [reason |-> "SafeERC20FailedOperation", st |-> st]
  ELSE [reason |-> OK,
        st |-> [st EXCEPT !.reserves = @ - amount, !.ubal[to] = @ + amount]]

\* ReentrancyGuard: _status values.
NOT_ENTERED == "NOT_ENTERED"
ENTERED == "ENTERED"

\* Mutant: the nonReentrant modifier lets a re-entrant call through.
Mutant_nonReentrantBefore == OK

\* modifier nonReentrant, on entry: reverts when a guarded call is running.
_nonReentrantBefore ==
  IF reentrancyStatus = ENTERED THEN "ReentrancyGuardReentrantCall" ELSE OK

\* deposit(amount), called by `sender` whose approval to the contract is `allowance`
deposit(sender, amount, allowance) ==
  IF _nonReentrantBefore # OK THEN Reverted(_nonReentrantBefore)
  ELSE IF amount = 0 THEN Reverted("AmountMustBeGreaterThanZero")
  ELSE LET balanceBefore == Pre.reserves
           t == safeTransferFrom(Pre, sender, amount, allowance)
       IN  IF t.reason # OK THEN Reverted(t.reason)
           ELSE LET received == t.st.reserves - balanceBefore
                IN  IF received # amount THEN Reverted("TransferAmountMismatch")
                    ELSE Returned(_mint(t.st, sender, received))

\* What an underlying token keeps of (1), or adds to (-1), the amount of a
\* transfer; a standard ERC-20 delivers the amount (0).
Fees == {-1, 0, 1}

\* underlying.safeTransferFrom(sender, address(this), amount) of an
\* underlying that delivers amount - fee to the receiver.
safeTransferFromFee(st, sender, amount, allowance, fee) ==
  IF st.ubal[sender] < amount \/ allowance < amount
  THEN [reason |-> "SafeERC20FailedOperation", st |-> st]
  ELSE [reason |-> OK,
        st |-> [st EXCEPT !.ubal[sender] = @ - amount, !.reserves = @ + (amount - fee)]]

\* Mutant: what was received is minted without being compared with amount.
Mutant_depositFee_MintsReceived(sender, amount, allowance, fee) ==
  IF _nonReentrantBefore # OK THEN Reverted(_nonReentrantBefore)
  ELSE IF amount = 0 THEN Reverted("AmountMustBeGreaterThanZero")
  ELSE LET balanceBefore == Pre.reserves
           t == safeTransferFromFee(Pre, sender, amount, allowance, fee)
       IN  IF t.reason # OK THEN Reverted(t.reason)
           ELSE Returned(_mint(t.st, sender, t.st.reserves - balanceBefore))

\* deposit(amount), called by `sender`, the underlying being one that
\* delivers amount - fee.
depositFee(sender, amount, allowance, fee) ==
  IF _nonReentrantBefore # OK THEN Reverted(_nonReentrantBefore)
  ELSE IF amount = 0 THEN Reverted("AmountMustBeGreaterThanZero")
  ELSE LET balanceBefore == Pre.reserves
           t == safeTransferFromFee(Pre, sender, amount, allowance, fee)
       IN  IF t.reason # OK THEN Reverted(t.reason)
           ELSE LET received == t.st.reserves - balanceBefore
                IN  IF received # amount THEN Reverted("TransferAmountMismatch")
                    ELSE Returned(_mint(t.st, sender, received))

\* Mutant: redeem burns the wrapped tokens and releases nothing.
Mutant_redeem_NoRelease(sender, amount) ==
  IF amount = 0 THEN Reverted("AmountMustBeGreaterThanZero")
  ELSE IF Pre.bal[sender] < amount THEN Reverted("InsufficientBalance")
  ELSE Returned(_burn(Pre, sender, amount))

\* Mutant: redeem keeps one unit of the released amount as a fee.
Mutant_redeemFrom_Fee(st, sender, amount) ==
  IF amount = 0 THEN [reason |-> "AmountMustBeGreaterThanZero", st |-> st]
  ELSE IF st.bal[sender] < amount THEN [reason |-> "InsufficientBalance", st |-> st]
  ELSE LET t == safeTransfer(_burn(st, sender, amount), sender, amount - 1)
       IN  IF t.reason # OK THEN [reason |-> t.reason, st |-> st] ELSE Returned(t.st)

\* Mutant: redeem does not compare the amount with the caller's balance and
\* leaves the rejection to the burn.
Mutant_redeemDebit_NoBalanceCheck(st, sender, amount) ==
  IF _nonReentrantBefore # OK THEN [reason |-> _nonReentrantBefore, st |-> st]
  ELSE IF amount = 0 THEN [reason |-> "AmountMustBeGreaterThanZero", st |-> st]
  ELSE IF st.bal[sender] < amount THEN [reason |-> "ERC20InsufficientBalance", st |-> st]
  ELSE Returned(_burn(st, sender, amount))

\* redeem(amount) up to the external call: the guard, the checks and the burn.
redeemDebit(st, sender, amount) ==
  IF _nonReentrantBefore # OK THEN [reason |-> _nonReentrantBefore, st |-> st]
  ELSE IF amount = 0 THEN [reason |-> "AmountMustBeGreaterThanZero", st |-> st]
  ELSE IF st.bal[sender] < amount THEN [reason |-> "InsufficientBalance", st |-> st]
  ELSE Returned(_burn(st, sender, amount))

\* redeem(amount), called by `sender` on storage `st`; a revert leaves `st`.
redeemFrom(st, sender, amount) ==
  LET b == redeemDebit(st, sender, amount)
  IN  IF b.reason # OK THEN b
      ELSE LET t == safeTransfer(b.st, sender, amount)
           IN  IF t.reason # OK THEN [reason |-> t.reason, st |-> st] ELSE Returned(t.st)

\* redeem(amount), called by `sender`
redeem(sender, amount) == redeemFrom(Pre, sender, amount)

\* ------------------------------------------------------ submitted inputs
\* How the signature submitted with a call differs from the one `from`
\* makes over the submitted fields: not at all, made with another key, for
\* another deployment, for the other function, over a changed to, value,
\* validity window or nonce, or made as a cancellation.
Tamper == {"exact", "signer", "domain", "type", "to", "value", "window", "nonce", "cancel"}

Other(S, x) == CHOOSE y \in S : y # x

\* The signature a call with these fields is tried with, `typehash` being
\* the typed-data type the called function checks.
AuthSig(tamper, typehash, from, to, value, validAfter, validBefore, nonce) ==
  LET D == DOMAIN_SEPARATOR
      W == Other(Windows, <<validAfter, validBefore>>)
      T == Other({"TransferWithAuthorization", "ReceiveWithAuthorization"}, typehash)
  IN  CASE tamper = "exact" ->
             signTypedData(from, D, typehash, <<from, to, value, validAfter, validBefore, nonce>>)
        [] tamper = "signer" ->
             signTypedData(Other(Addr, from), D, typehash, <<from, to, value, validAfter, validBefore, nonce>>)
        [] tamper = "domain" ->
             signTypedData(from, OtherDomain, typehash, <<from, to, value, validAfter, validBefore, nonce>>)
        [] tamper = "type" ->
             signTypedData(from, D, T, <<from, to, value, validAfter, validBefore, nonce>>)
        [] tamper = "to" ->
             signTypedData(from, D, typehash, <<from, Other(Addr, to), value, validAfter, validBefore, nonce>>)
        [] tamper = "value" ->
             signTypedData(from, D, typehash, <<from, to, value + 1, validAfter, validBefore, nonce>>)
        [] tamper = "window" ->
             signTypedData(from, D, typehash, <<from, to, value, W[1], W[2], nonce>>)
        [] tamper = "nonce" ->
             signTypedData(from, D, typehash, <<from, to, value, validAfter, validBefore, Other(Nonce, nonce)>>)
        [] tamper = "cancel" ->
             signTypedData(from, D, "CancelAuthorization", <<from, nonce>>)

\* The signature a cancelAuthorization(authorizer, nonce) call is tried with.
CancelSig(tamper, authorizer, nonce) ==
  CASE tamper = "signer" ->
         signTypedData(Other(Addr, authorizer), DOMAIN_SEPARATOR, "CancelAuthorization", <<authorizer, nonce>>)
    [] tamper = "domain" ->
         signTypedData(authorizer, OtherDomain, "CancelAuthorization", <<authorizer, nonce>>)
    [] tamper = "nonce" ->
         signTypedData(authorizer, DOMAIN_SEPARATOR, "CancelAuthorization", <<authorizer, Other(Nonce, nonce)>>)
    [] tamper = "type" ->
         signTypedData(authorizer, DOMAIN_SEPARATOR, "TransferWithAuthorization",
                       <<authorizer, Other(Addr, authorizer), 1, 1, 3, nonce>>)
    [] OTHER ->
         signTypedData(authorizer, DOMAIN_SEPARATOR, "CancelAuthorization", <<authorizer, nonce>>)

CancelTamper == {"exact", "signer", "domain", "nonce", "type"}

\* The cancellation `authorizer` signs for `nonce` on this deployment.
ExactCancelSig(authorizer, nonce) ==
  signTypedData(authorizer, DOMAIN_SEPARATOR, "CancelAuthorization", <<authorizer, nonce>>)

\* Who submits a receiveWithAuthorization call: the payee itself, or a
\* third party (every msg.sender other than `to` takes the same branch).
Submitters(to) == {to, "F"}

\* No redeem call is in progress.
NoRedeem == [sender |-> "none", amount |-> 0, released |-> FALSE, held |-> 0, before |-> 0]

\* A JSON field, variable or header that is absent.
Undefined == "undefined"

\* The JavaScript numbers of the handler are the multiples of one half: the
\* model's integer h stands for the number h/2, so that One is the number 1
\* and Half the number 0.5.
One == 2
Half == 1

\* parseInt(x.toString()) of a number x >= 0: the digits before the decimal
\* point of its string.
parseInt(x) == (x \div One) * One

\* No /buy request has been received.
NoPayload ==
  [network |-> Undefined, from |-> Undefined, to |-> Undefined, value |-> 0,
   validAfter |-> 0, validBefore |-> 0, nonce |-> Undefined,
   signature |-> [v |-> 0, r |-> Undefined, s |-> <<>>]]
NoRequest == [amount |-> 0, paymentPayload |-> NoPayload, compliance |-> [items |-> Undefined]]

\* No call has been made for the request.
NoCalls == [verify |-> 0, settle |-> 0, ledger |-> 0]

\* A settle response without the receipt field.
NoReceipt ==
  [receiptId |-> Undefined, transactionHash |-> Undefined, payer |-> Undefined,
   items |-> Undefined]

\* No X-PAYMENT-RESPONSE header is set.
NoHeader ==
  [sent |-> FALSE, success |-> FALSE, errorReason |-> Undefined, transaction |-> Undefined,
   network |-> Undefined, payer |-> Undefined]

\* .set("X-PAYMENT-RESPONSE", encodeSettlementResponse(settlementResponse))
PaymentResponseHeader(success, errorReason, transaction, network, payer) ==
  [sent |-> TRUE, success |-> success, errorReason |-> errorReason, transaction |-> transaction,
   network |-> network, payer |-> payer]

\* res.status(status)...json(body): the status, the X-PAYMENT-RESPONSE
\* header and, of the body, success, message, transaction.txHash and receipt.
Respond(status, header, success, message, txHash, receipt) ==
  [status |-> status, header |-> header, success |-> success, message |-> message,
   txHash |-> txHash, receipt |-> receipt]

NoResponse == Respond(0, NoHeader, FALSE, Undefined, Undefined, NoReceipt)

\* The /settle workers of the facilitator that run concurrently.
Workers == {"w1", "w2"}

\* One line item of a compliance input.
Item(description, quantity, unitPrice, total) ==
  [description |-> description, quantity |-> quantity, unitPrice |-> unitPrice, total |-> total]

\* The compliance input of a settle request: absent; two coffees; or two
\* lines, the second with a total that is not quantity * unitPrice, under a
\* jurisdiction that overrides the retention period.
NoComplianceInput == [present |-> FALSE, items |-> <<>>, retentionYears |-> 0]
CoffeeInput ==
  [present |-> TRUE, items |-> <<Item("Coffee", 2, "0.01", "0.02")>>, retentionYears |-> 0]
OverrideInput ==
  [present |-> TRUE,
   items |-> <<Item("Tea", 1, "0.03", "0.03"), Item("Coffee", 3, "0.01", "0.02")>>,
   retentionYears |-> 7]
ComplianceInputs == {NoComplianceInput, CoffeeInput, OverrideInput}

\* A point in time: the calendar year and the block time within the model.
Instant(year, t) == [year |-> year, t |-> t]

\* No receipt was built.
NoFullReceipt ==
  [receiptId |-> Undefined, receiptNumber |-> Undefined, sequence |-> 0,
   transactionHash |-> Undefined, payer |-> Undefined, items |-> <<>>,
   generatedAt |-> Instant(0, 0), expiresAt |-> Instant(0, 0)]

\* The receipt field of a /settle response: {receiptId, receiptNumber,
\* generatedAt, expiresAt} of a published receipt.
ReceiptSummary(receipt) ==
  [receiptId |-> receipt.receiptId, receiptNumber |-> receipt.receiptNumber,
   generatedAt |-> receipt.generatedAt, expiresAt |-> receipt.expiresAt]

NoSettleRequest == [payload |-> NoPayload, compliance |-> NoComplianceInput]

\* The /settle response a worker assembles: the standard fields and the
\* receipt field.
SettleResponse(success, transaction, network, payer, errorReason, receipt) ==
  [success |-> success, transaction |-> transaction, network |-> network, payer |-> payer,
   errorReason |-> errorReason, receipt |-> ReceiptSummary(receipt)]

\* A worker that has produced nothing yet.
NoOutput ==
  [response |-> SettleResponse(FALSE, Undefined, Undefined, Undefined, Undefined, NoFullReceipt),
   receipt |-> NoFullReceipt]

\* No /verify call has been answered since the ledger or the time changed.
NoVerification ==
  [payload |-> NoPayload, isValid |-> FALSE, invalidReason |-> Undefined, streak |-> 0]

\* The /verify and /settle responses before the facilitator has answered.
NoVerifyData == [isValid |-> FALSE, invalidReason |-> Undefined, payer |-> Undefined]
NoSettleData ==
  [success |-> FALSE, transaction |-> Undefined, network |-> Undefined, payer |-> Undefined,
   errorReason |-> Undefined, receipt |-> NoReceipt]

\* ---------------------------------------------------------------- actions
Init ==
  /\ authState = [k \in Key |-> FALSE]
  /\ balances = [a \in Addr |-> 0]
  /\ totalSupply = 0
  /\ uBal = [a \in Addr |-> IF a = "A" THEN MaxFunds ELSE 0]
  /\ reserves = 0
  /\ now = 0
  /\ usedLog = [k \in Key |-> 0]
  /\ canceledLog = [k \in Key |-> 0]
  /\ movedLog = [k \in Key |-> 0]
  /\ reentrancyStatus = NOT_ENTERED
  /\ pendingRedeem = NoRedeem
  /\ buyPc = "idle"
  /\ buyReq = NoRequest
  /\ verifyData = NoVerifyData
  /\ settleData = NoSettleData
  /\ buyResponse = NoResponse
  /\ buyCalls = NoCalls
  /\ coffees = [a \in Addr |-> 0]
  /\ settledAmount = [a \in Addr |-> 0]
  /\ lastVerify = NoVerification
  /\ facPc = [w \in Workers |-> "idle"]
  /\ facReq = [w \in Workers |-> NoSettleRequest]
  /\ facOut = [w \in Workers |-> NoOutput]
  /\ receiptSeq = 0
  /\ issued = <<>>
  /\ backups = {}
  /\ stored = <<>>
  /\ attempts = {}

\* The storage becomes `st`.
Store(st) ==
  /\ authState' = st.auth
  /\ balances' = st.bal
  /\ totalSupply' = st.supply
  /\ uBal' = st.ubal
  /\ reserves' = st.reserves
  /\ usedLog' = st.used
  /\ canceledLog' = st.canceled
  /\ movedLog' = st.moved

\* The transaction of a call with outcome `out` is mined.
Apply(out) ==
  /\ Store(out.st)
  /\ UNCHANGED <<now, guardVars, buyVars, verifyVars, receiptVars>>

TransferVRS ==
  \E from \in Addr, to \in Addr, value \in Value, w \in Windows, nonce \in Nonce :
    \E tamper \in Tamper :
      LET sig == AuthSig(tamper, TRANSFER_WITH_AUTHORIZATION_TYPEHASH, from, to, value, w[1], w[2], nonce)
      IN  Apply(transferWithAuthorizationVRS(from, to, value, w[1], w[2], nonce, sig))

TransferPacked ==
  \E from \in Addr, to \in Addr, value \in Value, w \in Windows, nonce \in Nonce :
    \E tamper \in Tamper :
      LET sig == AuthSig(tamper, TRANSFER_WITH_AUTHORIZATION_TYPEHASH, from, to, value, w[1], w[2], nonce)
      IN  Apply(transferWithAuthorizationPacked(from, to, value, w[1], w[2], nonce, Packed(sig)))

ReceiveVRS ==
  \E from \in Addr, to \in Addr, value \in Value, w \in Windows, nonce \in Nonce :
    \E sender \in Submitters(to), tamper \in Tamper :
      LET sig == AuthSig(tamper, RECEIVE_WITH_AUTHORIZATION_TYPEHASH, from, to, value, w[1], w[2], nonce)
      IN  Apply(receiveWithAuthorizationVRS(sender, from, to, value, w[1], w[2], nonce, sig))

ReceivePacked ==
  \E from \in Addr, to \in Addr, value \in Value, w \in Windows, nonce \in Nonce :
    \E sender \in Submitters(to), tamper \in Tamper :
      LET sig == AuthSig(tamper, RECEIVE_WITH_AUTHORIZATION_TYPEHASH, from, to, value, w[1], w[2], nonce)
      IN  Apply(receiveWithAuthorizationPacked(sender, from, to, value, w[1], w[2], nonce, Packed(sig)))

Cancel ==
  \E authorizer \in Addr, nonce \in Nonce :
    \E tamper \in CancelTamper :
      Apply(cancelAuthorization(authorizer, nonce, CancelSig(tamper, authorizer, nonce)))

Deposit ==
  \E sender \in Addr, amount \in Amount, allowance \in Amount :
    Apply(deposit(sender, amount, allowance))

\* A deposit while the underlying takes a fee or adds a bonus on the transfer.
DepositFee ==
  \E sender \in Addr, amount \in Amount, allowance \in Amount, fee \in Fees \ {0} :
    Apply(depositFee(sender, amount, allowance, fee))

Redeem ==
  \E sender \in Addr, amount \in Amount :
    Apply(redeem(sender, amount))

\* A later block: block.timestamp grows.
Tick ==
  /\ now < MaxTime
  /\ now' = now + 1
  /\ UNCHANGED <<ledgerVars, logVars, guardVars, buyVars, verifyVars, receiptVars>>

Next ==
  \/ TransferVRS
  \/ TransferPacked
  \/ ReceiveVRS
  \/ ReceivePacked
  \/ Cancel
  \/ Deposit
  \/ DepositFee
  \/ Redeem
  \/ Tick

Spec == Init /\ [][Next]_vars

\* ------------------------------------------- redeem with a calling-back token
\* The underlying token may call the receiver during safeTransfer (a token
\* with transfer hooks), and the receiver may call the contract again before
\* redeem returns.  redeem then takes three steps: the guard, the checks
\* and the burn; the movement of the underlying; the return, which resets
\* the guard.  Calls made from the hook are the actions of Next taken while
\* the redeem is pending, before or after the underlying has moved.
RedeemEnter ==
  /\ pendingRedeem = NoRedeem
  /\ \E sender \in Addr, amount \in Amount :
       LET b == redeemDebit(Pre, sender, amount)
       IN  /\ b.reason = OK
           /\ Store(b.st)
           /\ reentrancyStatus' = ENTERED
           /\ pendingRedeem' = [sender |-> sender, amount |-> amount, released |-> FALSE,
                                held |-> balances[sender], before |-> uBal[sender]]
           /\ UNCHANGED <<now, buyVars, verifyVars, receiptVars>>

\* underlying.safeTransfer(msg.sender, amount) moves the funds.
RedeemRelease ==
  /\ pendingRedeem # NoRedeem
  /\ ~pendingRedeem.released
  /\ LET t == safeTransfer(Pre, pendingRedeem.sender, pendingRedeem.amount)
     IN  /\ t.reason = OK
         /\ Store(t.st)
  /\ pendingRedeem' = [pendingRedeem EXCEPT !.released = TRUE]
  /\ UNCHANGED <<now, reentrancyStatus, buyVars, verifyVars, receiptVars>>

\* redeem returns: modifier nonReentrant resets _status.
RedeemExit ==
  /\ pendingRedeem # NoRedeem
  /\ pendingRedeem.released
  /\ reentrancyStatus' = NOT_ENTERED
  /\ pendingRedeem' = NoRedeem
  /\ UNCHANGED <<ledgerVars, logVars, now, buyVars, verifyVars, receiptVars>>

\* A later block: no transaction is in progress across blocks.
TickBetween ==
  /\ pendingRedeem = NoRedeem
  /\ Tick

NextReentrant ==
  \/ TransferVRS
  \/ TransferPacked
  \/ ReceiveVRS
  \/ ReceivePacked
  \/ Cancel
  \/ Deposit
  \/ Redeem
  \/ RedeemEnter
  \/ RedeemRelease
  \/ RedeemExit
  \/ TickBetween

SpecReentrant == Init /\ [][NextReentrant]_vars

\* ------------------------------------------------------- the facilitator
\* The facilitator service: /verify (the authorization verifier) and /settle
\* (the settlement orchestrator, which submits the authorization to the
\* ledger in the push style and, when compliance data came with the
\* request, builds and publishes a receipt).
NETWORK == "bsc-testnet"

\* The reference of the transaction that carries the authorization `p`.
TxRef(p) == "0xtx-" \o p.from \o "-" \o p.nonce

\* verify(authorization, currentTime): the first rule broken, OK when none.
VerifyAuthorization(p) ==
  IF ~(now >= p.validAfter) THEN "not-yet-valid"
  ELSE IF ~(now <= p.validBefore) THEN "expired"
  ELSE IF authorizationState(p.from, p.nonce) THEN "already-used"
  ELSE IF RecoverVRS(TransferDigest(p.from, p.to, p.value, p.validAfter, p.validBefore, p.nonce),
                     p.signature.v, p.signature.r, p.signature.s) # p.from
       THEN "invalid-signature"
  ELSE OK

\* POST /verify: {isValid, invalidReason?, payer?}
FacilitatorVerify(p) ==
  LET reason == VerifyAuthorization(p)
  IN  [isValid |-> reason = OK,
       invalidReason |-> IF reason = OK THEN Undefined ELSE reason,
       payer |-> p.from]

\* What the ledger and the storage network do with one settle request:
\* whether the confirmation arrives in time, whether a transaction that
\* timed out lands later, whether a transaction reference exists when the
\* transfer is not confirmed, and whether the receipt upload succeeds.
SettleEnv == [timing : {"confirmed", "timeout"}, lands : BOOLEAN, ref : BOOLEAN, publish : BOOLEAN]

\* submitTransfer(authorization): confirmed(transactionRef), rejected(reason)
\* or timedOut, with the storage the ledger is left in.
submitTransfer(p, env) ==
  LET out == transferWithAuthorizationVRS(p.from, p.to, p.value, p.validAfter, p.validBefore,
                                          p.nonce, p.signature)
      ref == IF env.ref THEN TxRef(p) ELSE Undefined
  IN  IF env.timing = "timeout"
      THEN [outcome |-> "timedOut", reason |-> "timed-out", ref |-> ref,
            st |-> IF env.lands THEN out.st ELSE Pre]
      ELSE IF out.reason = OK
      THEN [outcome |-> "confirmed", reason |-> Undefined, ref |-> TxRef(p), st |-> out.st]
      ELSE [outcome |-> "rejected", reason |-> out.reason, ref |-> ref, st |-> Pre]

\* build(settlementOutcome, complianceInput) and publish(receipt): the
\* receipt summary returned to the caller.
ReceiptFor(p, ref, compliance) ==
  [receiptId |-> "rcpt_" \o ref, transactionHash |-> ref, payer |-> p.from,
   items |-> compliance.items]

\* The compliance field of a request: absent, or the data of one purchase.
NoCompliance == [items |-> Undefined]
SomeCompliance == [items |-> "2 x Coffee @ 0.01 = 0.02"]

\* Mutant: a failed receipt upload fails the settle request.
Mutant_FacilitatorSettle_PublishGates(p, compliance, env) ==
  LET reason == VerifyAuthorization(p)
      l == submitTransfer(p, env)
      failed == [success |-> FALSE, transaction |-> Undefined, network |-> NETWORK,
                 payer |-> p.from, errorReason |-> reason, receipt |-> NoReceipt]
  IN  IF reason # OK
      THEN [response |-> failed, st |-> Pre, ledger |-> 0, published |-> FALSE]
      ELSE IF l.outcome # "confirmed"
      THEN [response |-> [failed EXCEPT !.transaction = l.ref, !.errorReason = l.reason],
            st |-> l.st, ledger |-> 1, published |-> FALSE]
      ELSE IF compliance # NoCompliance /\ ~env.publish
      THEN [response |-> [failed EXCEPT !.transaction = l.ref, !.errorReason = "receipt-publication-failed"],
            st |-> l.st, ledger |-> 1, published |-> FALSE]
      ELSE [response |-> [success |-> TRUE, transaction |-> l.ref, network |-> NETWORK,
                          payer |-> p.from, errorReason |-> Undefined,
                          receipt |-> IF compliance # NoCompliance
                                      THEN ReceiptFor(p, l.ref, compliance) ELSE NoReceipt],
            st |-> l.st, ledger |-> 1, published |-> compliance # NoCompliance]

\* Mutant: the facilitator refuses a settle request without compliance data.
Mutant_FacilitatorSettle_ComplianceRequired(p, compliance, env) ==
  LET reason == VerifyAuthorization(p)
      l == submitTransfer(p, env)
      failed == [success |-> FALSE, transaction |-> Undefined, network |-> NETWORK,
                 payer |-> p.from, errorReason |-> reason, receipt |-> NoReceipt]
  IN  IF compliance = NoCompliance
      THEN [response |-> [failed EXCEPT !.errorReason = "compliance-required"],
            st |-> Pre, ledger |-> 0, published |-> FALSE]
      ELSE IF reason # OK
      THEN [response |-> failed, st |-> Pre, ledger |-> 0, published |-> FALSE]
      ELSE IF l.outcome # "confirmed"
      THEN [response |-> [failed EXCEPT !.transaction = l.ref, !.errorReason = l.reason],
            st |-> l.st, ledger |-> 1, published |-> FALSE]
      ELSE [response |-> [success |-> TRUE, transaction |-> l.ref, network |-> NETWORK,
                          payer |-> p.from, errorReason |-> Undefined,
                          receipt |-> IF env.publish
                                      THEN ReceiptFor(p, l.ref, compliance) ELSE NoReceipt],
            st |-> l.st, ledger |-> 1, published |-> env.publish]

\* POST /settle: Received, Verifying, Settling and, with compliance input
\* and a confirmed transfer, GeneratingReceipt and PublishingReceipt.  Gives
\* the response {success, transaction, network, payer, errorReason?,
\* receipt?}, the storage the ledger is left in, the number of ledger
\* submissions made and whether a receipt was published.
FacilitatorSettle(p, compliance, env) ==
  LET reason == VerifyAuthorization(p)
      l == submitTransfer(p, env)
      failed == [success |-> FALSE, transaction |-> Undefined, network |-> NETWORK,
                 payer |-> p.from, errorReason |-> reason, receipt |-> NoReceipt]
  IN  IF reason # OK
      THEN [response |-> failed, st |-> Pre, ledger |-> 0, published |-> FALSE]
      ELSE IF l.outcome # "confirmed"
      THEN [response |-> [failed EXCEPT !.transaction = l.ref, !.errorReason = l.reason],
            st |-> l.st, ledger |-> 1, published |-> FALSE]
      ELSE LET published == compliance # NoCompliance /\ env.publish
           IN  [response |-> [success |-> TRUE, transaction |-> l.ref, network |-> NETWORK,
                              payer |-> p.from, errorReason |-> Undefined,
                              receipt |-> IF published
                                          THEN ReceiptFor(p, l.ref, compliance) ELSE NoReceipt],
                st |-> l.st, ledger |-> 1, published |-> published]

\* ------------------------------------------------ the /buy resource server
PAY_TO == "B"

\* JavaScript's x || d on a string field of a JSON response.
OrElse(x, d) == IF x \in {Undefined, ""} THEN d ELSE x

\* Mutant: the network of the payload is not checked.
Mutant_BuyValidate_AnyNetwork(req) ==
  IF req.amount <= 0
  THEN Respond(400, NoHeader, FALSE, "Invalid amount", Undefined, NoReceipt)
  ELSE IF req.paymentPayload = NoPayload
  THEN Respond(402, NoHeader, FALSE, "Payment required to access this resource", Undefined, NoReceipt)
  ELSE NoResponse

\* The checks made on req.body before the facilitator is called: the
\* response they end the request with, NoResponse when they pass.
BuyValidate(req) ==
  IF req.amount <= 0
  THEN Respond(400, NoHeader, FALSE, "Invalid amount", Undefined, NoReceipt)
  ELSE IF req.paymentPayload = NoPayload
  THEN Respond(402, NoHeader, FALSE, "Payment required to access this resource", Undefined, NoReceipt)
  ELSE IF req.paymentPayload.network # NETWORK
  THEN Respond(400, NoHeader, FALSE, "Invalid network. Expected: " \o NETWORK, Undefined, NoReceipt)
  ELSE NoResponse

\* Mutant: the handler goes on to /settle whatever /verify answered.
Mutant_BuyOnVerify_AlwaysSettle(req, vd) == NoResponse

\* Mutant: the 402 of a failed verification carries a generic reason.
Mutant_BuyOnVerify_GenericReason(req, vd) ==
  IF ~vd.isValid
  THEN Respond(402,
               PaymentResponseHeader(FALSE, "verification_failed", "", NETWORK, OrElse(vd.payer, "")),
               FALSE, "Payment required to access this resource", Undefined, NoReceipt)
  ELSE NoResponse

\* After /verify answered `vd`: the 402 that ends the request when the
\* payment is not valid, NoResponse when the handler goes on to /settle.
BuyOnVerify(req, vd) ==
  IF ~vd.isValid
  THEN Respond(402,
               PaymentResponseHeader(FALSE, OrElse(vd.invalidReason, "verification_failed"), "",
                                     NETWORK, OrElse(vd.payer, "")),
               FALSE, "Payment required to access this resource", Undefined, NoReceipt)
  ELSE NoResponse

\* Mutant: the 402 of a failed settlement drops the transaction reference.
Mutant_BuyOnSettle_DropsTransaction(req, sd, cf) ==
  LET address == req.paymentPayload.from
  IN  IF ~sd.success
      THEN [response |->
              Respond(402,
                      PaymentResponseHeader(FALSE, OrElse(sd.errorReason, "settlement_failed"),
                                            "", OrElse(sd.network, NETWORK), OrElse(sd.payer, "")),
                      FALSE, "Payment required to access this resource", Undefined, NoReceipt),
            coffees |-> cf]
      ELSE IF address = Undefined
      THEN [response |-> Respond(400, NoHeader, FALSE, "Invalid payer address in payment payload",
                                 Undefined, NoReceipt),
            coffees |-> cf]
      ELSE [response |->
              Respond(200,
                      PaymentResponseHeader(TRUE, Undefined, sd.transaction, sd.network, sd.payer),
                      TRUE, "Coffee purchased", sd.transaction,
                      IF sd.receipt # NoReceipt THEN sd.receipt ELSE NoReceipt),
            coffees |-> [cf EXCEPT ![address] = parseInt(@) + req.amount]]

\* Mutant: the 200 response always carries a receipt object.
Mutant_BuyOnSettle_AlwaysReceipt(req, sd, cf) ==
  LET address == req.paymentPayload.from
  IN  IF ~sd.success
      THEN [response |->
              Respond(402,
                      PaymentResponseHeader(FALSE, OrElse(sd.errorReason, "settlement_failed"),
                                            OrElse(sd.transaction, ""), OrElse(sd.network, NETWORK),
                                            OrElse(sd.payer, "")),
                      FALSE, "Payment required to access this resource", Undefined, NoReceipt),
            coffees |-> cf]
      ELSE IF address = Undefined
      THEN [response |-> Respond(400, NoHeader, FALSE, "Invalid payer address in payment payload",
                                 Undefined, NoReceipt),
            coffees |-> cf]
      ELSE [response |->
              Respond(200,
                      PaymentResponseHeader(TRUE, Undefined, sd.transaction, sd.network, sd.payer),
                      TRUE, "Coffee purchased", sd.transaction,
                      [sd.receipt EXCEPT !.receiptId = "rcpt_" \o sd.transaction]),
            coffees |-> [cf EXCEPT ![address] = parseInt(@) + req.amount]]

\* Mutant: the header of the 200 names no payer.
Mutant_BuyOnSettle_HeaderWithoutPayer(req, sd, cf) ==
  LET address == req.paymentPayload.from
  IN  IF ~sd.success
      THEN [response |->
              Respond(402,
                      PaymentResponseHeader(FALSE, OrElse(sd.errorReason, "settlement_failed"),
                                            OrElse(sd.transaction, ""), OrElse(sd.network, NETWORK),
                                            OrElse(sd.payer, "")),
                      FALSE, "Payment required to access this resource", Undefined, NoReceipt),
            coffees |-> cf]
      ELSE IF address = Undefined
      THEN [response |-> Respond(400, NoHeader, FALSE, "Invalid payer address in payment payload",
                                 Undefined, NoReceipt),
            coffees |-> cf]
      ELSE [response |->
              Respond(200,
                      PaymentResponseHeader(TRUE, Undefined, sd.transaction, sd.network, ""),
                      TRUE, "Coffee purchased", sd.transaction,
                      IF sd.receipt # NoReceipt THEN sd.receipt ELSE NoReceipt),
            coffees |-> [cf EXCEPT ![address] = parseInt(@) + req.amount]]

\* After /settle answered `sd`: the response that ends the request and the
\* purchase counts, `cf` being the counts before.
BuyOnSettle(req, sd, cf) ==
  LET address == req.paymentPayload.from
  IN  IF ~sd.success
      THEN [response |->
              Respond(402,
                      PaymentResponseHeader(FALSE, OrElse(sd.errorReason, "settlement_failed"),
                                            OrElse(sd.transaction, ""), OrElse(sd.network, NETWORK),
                                            OrElse(sd.payer, "")),
                      FALSE, "Payment required to access this resource", Undefined, NoReceipt),
            coffees |-> cf]
      ELSE IF address = Undefined
      THEN [response |-> Respond(400, NoHeader, FALSE, "Invalid payer address in payment payload",
                                 Undefined, NoReceipt),
            coffees |-> cf]
      ELSE [response |->
              Respond(200,
                      PaymentResponseHeader(TRUE, Undefined, sd.transaction, sd.network, sd.payer),
                      TRUE, "Coffee purchased", sd.transaction,
                      IF sd.receipt # NoReceipt THEN sd.receipt ELSE NoReceipt),
            coffees |-> [cf EXCEPT ![address] = parseInt(@) + req.amount]]

\* The paymentPayload of a request: the authorization A signs for one
\* coffee (1 unit to PAY_TO), or the same fields signed by another key.
Payloads ==
  {[network |-> network, from |-> "A", to |-> PAY_TO, value |-> 1,
    validAfter |-> w[1], validBefore |-> w[2], nonce |-> nonce,
    signature |-> AuthSig(tamper, "TransferWithAuthorization", "A", PAY_TO, 1, w[1], w[2], nonce)] :
     network \in {NETWORK}, w \in Windows, nonce \in Nonce, tamper \in {"exact", "signer"}}
  \cup
  {[network |-> "base-sepolia", from |-> "A", to |-> PAY_TO, value |-> 1,
    validAfter |-> 1, validBefore |-> 3, nonce |-> "n1",
    signature |-> AuthSig("exact", "TransferWithAuthorization", "A", PAY_TO, 1, 1, 3, "n1")]}

\* The calls made for the request so far, after the handler moved to `pc`:
\* to "verify" by fetch(/verify), to "settle" by fetch(/settle).
Fetched(calls, pc) ==
  [calls EXCEPT !.verify = @ + (IF pc = "verify" THEN 1 ELSE 0),
                !.settle = @ + (IF pc = "settle" THEN 1 ELSE 0)]

\* Mutant: the handler sends /settle again when it answered success=false.
Mutant_AfterSettle_Retry(sd) == IF sd.success THEN "done" ELSE "settle"

\* Where the handler is after /settle answered `sd`: it has returned, with
\* the 402 (or the 400 or 200) built from that one answer.
AfterSettle(sd) == "done"

\* req.body.amount: negative, 0 (for which, as for a missing amount,
\* !amount holds), half a coffee, or one coffee.
Amounts == {-One, 0, Half, One}

\* app.post("/buy"): a request arrives; the handler validates it and, when
\* it passes, sends POST /verify.
BuyReceive ==
  /\ buyPc \in {"idle", "done"}
  /\ \E amount \in Amounts, payload \in Payloads \cup {NoPayload},
        compliance \in {NoCompliance, SomeCompliance} :
       LET req == [amount |-> amount, paymentPayload |-> payload, compliance |-> compliance]
           r == BuyValidate(req)
       IN  /\ buyReq' = req
           /\ buyResponse' = r
           /\ buyPc' = IF r = NoResponse THEN "verify" ELSE "done"
           /\ buyCalls' = Fetched(NoCalls, IF r = NoResponse THEN "verify" ELSE "done")
  /\ verifyData' = NoVerifyData
  /\ settleData' = NoSettleData
  /\ UNCHANGED <<ledgerVars, logVars, guardVars, now, coffees, settledAmount, verifyVars, receiptVars>>

\* The facilitator answers /verify; the handler ends the request with a 402
\* or sends POST /settle with the compliance data of the request.
BuyVerified ==
  /\ buyPc = "verify"
  /\ LET vd == FacilitatorVerify(buyReq.paymentPayload)
         r == BuyOnVerify(buyReq, vd)
     IN  /\ verifyData' = vd
         /\ buyResponse' = r
         /\ buyPc' = IF r = NoResponse THEN "settle" ELSE "done"
         /\ buyCalls' = Fetched(buyCalls, IF r = NoResponse THEN "settle" ELSE "done")
  /\ UNCHANGED <<ledgerVars, logVars, guardVars, now, buyReq, settleData, coffees, settledAmount, verifyVars, receiptVars>>

\* The facilitator handles /settle and answers; the handler ends the
\* request with a 402, or counts the purchase and answers 200.
BuySettled ==
  /\ buyPc = "settle"
  /\ \E env \in SettleEnv :
       LET fs == FacilitatorSettle(buyReq.paymentPayload, buyReq.compliance, env)
           r == BuyOnSettle(buyReq, fs.response, coffees)
       IN  /\ Store(fs.st)
           /\ settleData' = fs.response
           /\ buyCalls' = Fetched([buyCalls EXCEPT !.ledger = @ + fs.ledger], AfterSettle(fs.response))
           /\ buyPc' = AfterSettle(fs.response)
           /\ buyResponse' = r.response
           /\ coffees' = r.coffees
           /\ settledAmount' = IF fs.response.success
                               THEN [settledAmount EXCEPT ![buyReq.paymentPayload.from] = @ + buyReq.amount]
                               ELSE settledAmount
  /\ UNCHANGED <<guardVars, now, buyReq, verifyData, verifyVars, receiptVars>>

\* fetch or response.json() throws: catch (error), status 500.
BuyFetchError ==
  /\ buyPc \in {"verify", "settle"}
  /\ buyResponse' = Respond(500, NoHeader, FALSE, "Internal server error", Undefined, NoReceipt)
  /\ buyPc' = "done"
  /\ UNCHANGED <<ledgerVars, logVars, guardVars, now, buyReq, verifyData, settleData, buyCalls, coffees, settledAmount, verifyVars, receiptVars>>

\* The payer cancels one of its authorizations.
PayerCancel ==
  \E payload \in Payloads :
    Apply(cancelAuthorization(payload.from, payload.nonce,
                              ExactCancelSig(payload.from, payload.nonce)))

\* The resource server and the facilitator, with the ledger operations the
\* payer makes beside them: deposits, cancellations, and time passing.
NextBuy ==
  \/ BuyReceive
  \/ BuyVerified
  \/ BuySettled
  \/ BuyFetchError
  \/ Deposit
  \/ PayerCancel
  \/ Tick

SpecBuy == Init /\ [][NextBuy]_vars

\* ------------------------------------- the facilitator's /verify, alone
\* The number of /verify calls counted in a row for one payload.
MaxStreak == 2

\* POST /verify from any caller: the facilitator checks the authorization,
\* looking the nonce up with authorizationState, and answers.
VerifyCall ==
  \E p \in Payloads :
    LET lookup == authorizationStateCall(p.from, p.nonce)
        answer == FacilitatorVerify(p)
    IN  /\ Store(lookup.st)
        /\ lastVerify' = [payload |-> p, isValid |-> answer.isValid,
                          invalidReason |-> answer.invalidReason,
                          streak |-> IF lastVerify.payload = p /\ lastVerify.streak < MaxStreak
                                     THEN lastVerify.streak + 1
                                     ELSE IF lastVerify.payload = p THEN MaxStreak ELSE 1]
        /\ UNCHANGED <<now, guardVars, buyVars, receiptVars>>

\* A settle of one of the payloads reaches the ledger.
VerifySettle ==
  \E p \in Payloads :
    /\ Store(transferWithAuthorizationVRS(p.from, p.to, p.value, p.validAfter, p.validBefore,
                                          p.nonce, p.signature).st)
    /\ lastVerify' = NoVerification
    /\ UNCHANGED <<now, guardVars, buyVars, receiptVars>>

\* The payer cancels one of its authorizations.
VerifyCancel ==
  \E p \in Payloads :
    /\ Store(cancelAuthorization(p.from, p.nonce, ExactCancelSig(p.from, p.nonce)).st)
    /\ lastVerify' = NoVerification
    /\ UNCHANGED <<now, guardVars, buyVars, receiptVars>>

\* A later block.
VerifyTick ==
  /\ now < MaxTime
  /\ now' = now + 1
  /\ lastVerify' = NoVerification
  /\ UNCHANGED <<ledgerVars, logVars, guardVars, buyVars, receiptVars>>

\* /verify calls from any number of callers, among settles, cancels,
\* deposits and the passing of time.
NextVerify ==
  \/ VerifyCall
  \/ VerifySettle
  \/ VerifyCancel
  \/ VerifyTick
  \/ Deposit

SpecVerify == Init /\ [][NextVerify]_vars

\* ------------------------------- the facilitator's /settle, step by step
\* The settle requests the workers are given: A's authorizations for one
\* coffee, valid from 1 to 3, under either nonce.
ReceiptPayloads ==
  {p \in Payloads :
     /\ p.network = NETWORK
     /\ p.validAfter = 1 /\ p.validBefore = 3
     /\ p.signature = AuthSig("exact", "TransferWithAuthorization", p.from, p.to, p.value,
                              p.validAfter, p.validBefore, p.nonce)}

\* The calendar year of a block time.
YearOf(t) == 2025 + (t \div 3)

\* Retention period (default: 5 years).
DefaultRetentionYears == 5

\* {zero-padded sequence}
ZeroPadded(n) == SubSeq("0000", 1, 4 - Len(ToString(n))) \o ToString(n)

\* Mutant: the builder recomputes nothing but orders the lines by total.
Mutant_build_Reorders(response, compliance, sequence, t) ==
  [receiptId |-> "rcpt_" \o response.transaction,
   receiptNumber |-> ToString(YearOf(t)) \o "-" \o ZeroPadded(sequence),
   sequence |-> sequence,
   transactionHash |-> response.transaction,
   payer |-> response.payer,
   items |-> [i \in 1..Len(compliance.items) |-> compliance.items[Len(compliance.items) + 1 - i]],
   generatedAt |-> Instant(YearOf(t), t),
   expiresAt |-> Instant(YearOf(t) + (IF compliance.retentionYears > 0
                                      THEN compliance.retentionYears
                                      ELSE DefaultRetentionYears), t)]

\* build(settlementOutcome, complianceInput) with the sequence value drawn
\* for it, at time t.
build(response, compliance, sequence, t) ==
  [receiptId |-> "rcpt_" \o response.transaction,
   receiptNumber |-> ToString(YearOf(t)) \o "-" \o ZeroPadded(sequence),
   sequence |-> sequence,
   transactionHash |-> response.transaction,
   payer |-> response.payer,
   items |-> compliance.items,
   generatedAt |-> Instant(YearOf(t), t),
   expiresAt |-> Instant(YearOf(t) + (IF compliance.retentionYears > 0
                                      THEN compliance.retentionYears
                                      ELSE DefaultRetentionYears), t)]

\* Mutant: the counter is read without being advanced.
Mutant_NextSequence_Stale(counter) == [value |-> counter + 1, counter |-> counter]

\* The atomic increment of the sequence counter: the value drawn and the
\* counter it leaves.
NextSequence(counter) == [value |-> counter + 1, counter |-> counter + 1]

\* Mutant: a receipt is generated whenever compliance input is present.
Mutant_AfterSettling_Always(response, compliance) ==
  IF compliance.present THEN "generating" ELSE "complete"

\* Settled -> GeneratingReceipt with compliance input; Settled -> Complete
\* without; SettlementFailed and Rejected -> Complete.
AfterSettling(response, compliance) ==
  IF response.success /\ compliance.present THEN "generating" ELSE "complete"

\* Mutant: the remote publish is attempted right after the build.
Mutant_AfterGenerating_PublishFirst == "publishing"

\* The local backup copy is written before the remote publish.
AfterGenerating == "backup"

\* Mutant: publishing rewrites the objects stored before.
Mutant_publish_Rewrites(objects, receipt) ==
  [i \in 1..(Len(objects) + 1) |-> receipt]

\* publish(receipt): the object is written to the storage network.
publish(objects, receipt) == Append(objects, receipt)

\* Received -> Verifying -> Settling: worker w takes a settle request,
\* verifies it and submits the transfer; the ledger serializes submissions.
FacSettle(w) ==
  /\ facPc[w] = "idle"
  /\ \E p \in ReceiptPayloads, compliance \in {NoComplianceInput, CoffeeInput},
        env \in {e \in SettleEnv : e.publish} :
       LET fs == FacilitatorSettle(p, NoCompliance, env)
           r == fs.response
       IN  /\ Store(fs.st)
           /\ facReq' = [facReq EXCEPT ![w] = [payload |-> p, compliance |-> compliance]]
           /\ facOut' = [facOut EXCEPT ![w] =
                           [response |-> SettleResponse(r.success, r.transaction, r.network,
                                                        r.payer, r.errorReason, NoFullReceipt),
                            receipt |-> NoFullReceipt]]
           /\ facPc' = [facPc EXCEPT ![w] = AfterSettling(r, compliance)]
  /\ UNCHANGED <<now, guardVars, buyVars, verifyVars, receiptSeq, issued, backups, stored, attempts>>

\* GeneratingReceipt: the sequence value is drawn and the receipt built.
FacGenerate(w) ==
  /\ facPc[w] = "generating"
  /\ LET drawn == NextSequence(receiptSeq)
         receipt == build(facOut[w].response, facReq[w].compliance, drawn.value, now)
     IN  /\ receiptSeq' = drawn.counter
         /\ issued' = Append(issued, receipt)
         /\ facOut' = [facOut EXCEPT ![w].receipt = receipt]
  /\ facPc' = [facPc EXCEPT ![w] = AfterGenerating]
  /\ UNCHANGED <<ledgerVars, logVars, now, guardVars, buyVars, verifyVars, facReq, backups, stored, attempts>>

\* The local backup copy is written.
FacBackup(w) ==
  /\ facPc[w] = "backup"
  /\ backups' = backups \cup {facOut[w].receipt}
  /\ facPc' = [facPc EXCEPT ![w] = "publishing"]
  /\ UNCHANGED <<ledgerVars, logVars, now, guardVars, buyVars, verifyVars, facReq, facOut,
                 receiptSeq, issued, stored, attempts>>

\* PublishingReceipt -> Complete: the upload succeeds, and the response
\* gets the receipt field, or fails, and the response stays as it is.
FacPublish(w) ==
  /\ facPc[w] = "publishing"
  /\ attempts' = attempts \cup {facOut[w].receipt.receiptId}
  /\ \E uploaded \in BOOLEAN :
       IF uploaded
       THEN /\ stored' = publish(stored, facOut[w].receipt)
            /\ facOut' = [facOut EXCEPT ![w].response.receipt = ReceiptSummary(facOut[w].receipt)]
       ELSE UNCHANGED <<stored, facOut>>
  /\ facPc' = [facPc EXCEPT ![w] = "complete"]
  /\ UNCHANGED <<ledgerVars, logVars, now, guardVars, buyVars, verifyVars, facReq,
                 receiptSeq, issued, backups>>

\* Complete: the response is returned and the worker is free again.
FacReturn(w) ==
  /\ facPc[w] = "complete"
  /\ facPc' = [facPc EXCEPT ![w] = "idle"]
  /\ facReq' = [facReq EXCEPT ![w] = NoSettleRequest]
  /\ facOut' = [facOut EXCEPT ![w] = NoOutput]
  /\ UNCHANGED <<ledgerVars, logVars, now, guardVars, buyVars, verifyVars,
                 receiptSeq, issued, backups, stored, attempts>>

\* A deposits one unit.
PayerDeposit == Apply(deposit("A", 1, 1))

\* Concurrent settle requests at the facilitator, with the payer's deposits
\* and the passing of time.
NextReceipts ==
  \/ \E w \in Workers : FacSettle(w)
  \/ \E w \in Workers : FacGenerate(w)
  \/ \E w \in Workers : FacBackup(w)
  \/ \E w \in Workers : FacPublish(w)
  \/ \E w \in Workers : FacReturn(w)
  \/ PayerDeposit
  \/ Tick

SpecReceipts == Init /\ [][NextReceipts]_vars

\* ------------------------------------------------- the calls of a state
\* The authorizations submitted: every choice of the fields.
AuthCalls ==
  [from : Addr, to : Addr, value : Value, window : Windows, nonce : Nonce]

KeyOf(c) == <<c.from, c.nonce>>

\* The signature `c.from` makes over exactly the fields of `c` for the
\* function of type `primaryType` of this deployment.
ExactSig(primaryType, c) ==
  signTypedData(c.from, DOMAIN_SEPARATOR, primaryType,
                <<c.from, c.to, c.value, c.window[1], c.window[2], c.nonce>>)

InWindow(c) == c.window[1] <= now /\ now <= c.window[2]

\* P(fn, c, sig, byReceiver, out) of every transferWithAuthorization and
\* receiveWithAuthorization call that can be made in the current state, in
\* both signature encodings: fn is the function, c the submitted fields,
\* sig the submitted signature, byReceiver whether the receiver check passes
\* (msg.sender = to for receive; transfer has no such check) and out the
\* call's outcome.
AllSettles(P(_, _, _, _, _)) ==
  \A c \in AuthCalls, tamper \in Tamper :
    LET tsig == AuthSig(tamper, "TransferWithAuthorization", c.from, c.to, c.value, c.window[1], c.window[2], c.nonce)
        rsig == AuthSig(tamper, "ReceiveWithAuthorization", c.from, c.to, c.value, c.window[1], c.window[2], c.nonce)
    IN  /\ P("TransferWithAuthorization", c, tsig, TRUE,
             transferWithAuthorizationVRS(c.from, c.to, c.value, c.window[1], c.window[2], c.nonce, tsig))
        /\ P("TransferWithAuthorization", c, tsig, TRUE,
             transferWithAuthorizationPacked(c.from, c.to, c.value, c.window[1], c.window[2], c.nonce, Packed(tsig)))
        /\ \A sender \in Submitters(c.to) :
             /\ P("ReceiveWithAuthorization", c, rsig, sender = c.to,
                  receiveWithAuthorizationVRS(sender, c.from, c.to, c.value, c.window[1], c.window[2], c.nonce, rsig))
             /\ P("ReceiveWithAuthorization", c, rsig, sender = c.to,
                  receiveWithAuthorizationPacked(sender, c.from, c.to, c.value, c.window[1], c.window[2], c.nonce, Packed(rsig)))

\* P(authorizer, nonce, sig, out) of every cancelAuthorization call that can
\* be made in the current state.
AllCancels(P(_, _, _, _)) ==
  \A authorizer \in Addr, nonce \in Nonce, tamper \in CancelTamper :
    P(authorizer, nonce, CancelSig(tamper, authorizer, nonce),
      cancelAuthorization(authorizer, nonce, CancelSig(tamper, authorizer, nonce)))

\* The authorization A signs for the scenarios: 1 unit to B, window <<1, 3>>, nonce n1.
ScenarioAuth == [from |-> "A", to |-> "B", value |-> 1, window |-> <<1, 3>>, nonce |-> "n1"]

Resubmit(c) ==
  transferWithAuthorizationVRS(c.from, c.to, c.value, c.window[1], c.window[2], c.nonce,
                               ExactSig("TransferWithAuthorization", c))

C2_RegistryMonotonic ==
  [][\A k \in Key : authState[k] => authState'[k]]_vars

\* A nonce was used, another of the same authorizer canceled, and afterwards
\* all wrapped tokens were redeemed and the clock ran to its end.
C2_Witness ==
  /\ usedLog[<<"A", "n1">>] = 1 /\ authorizationState("A", "n1")
  /\ canceledLog[<<"A", "n2">>] = 1 /\ authorizationState("A", "n2")
  /\ totalSupply = 0
  /\ uBal["B"] > 0
  /\ now = MaxTime

\* ------------------------------------------------------------------ C3
\* C3 as stated: once a nonce is used or canceled, every transfer, receive
\* or cancel attempt on the same (authorizer, nonce) fails with the reason
\* AuthorizationAlreadyUsed.
C3_Original ==
  /\ AllSettles(LAMBDA fn, c, sig, byReceiver, out :
        authState[KeyOf(c)] => out.reason = "AuthorizationAlreadyUsed")
  /\ AllCancels(LAMBDA authorizer, nonce, sig, out :
        authState[<<authorizer, nonce>>] => out.reason = "AuthorizationAlreadyUsed")

\* C3 amended: once a nonce is used or canceled, every transfer, receive or
\* cancel attempt on the same (authorizer, nonce) fails and changes nothing;
\* the reason is AuthorizationAlreadyUsed for every cancel and for every
\* transfer or receive that passes the checks made before the nonce check
\* (the caller is `to` for receive, validAfter <= now <= validBefore), and
\* otherwise the reason of the earlier check that fails.
C3_UsedNonceRejected ==
  /\ AllSettles(LAMBDA fn, c, sig, byReceiver, out :
        authState[KeyOf(c)] =>
          /\ out.st = Pre
          /\ out.reason =
                IF ~byReceiver THEN "UnauthorizedReceiver"
                ELSE IF now < c.window[1] THEN "AuthorizationNotYetValid"
                ELSE IF now > c.window[2] THEN "AuthorizationExpired"
                ELSE "AuthorizationAlreadyUsed")
  /\ AllCancels(LAMBDA authorizer, nonce, sig, out :
        authState[<<authorizer, nonce>>] =>
          out.st = Pre /\ out.reason = "AuthorizationAlreadyUsed")

\* One nonce of A was used and the other canceled; a cancel of the used one
\* and a transfer under the canceled one are both rejected as already used.
C3_Witness ==
  /\ usedLog[<<"A", "n1">>] = 1
  /\ canceledLog[<<"A", "n2">>] = 1
  /\ now = 2
  /\ cancelAuthorization("A", "n1", signTypedData("A", DOMAIN_SEPARATOR, "CancelAuthorization", <<"A", "n1">>)).reason
       = "AuthorizationAlreadyUsed"
  /\ Resubmit([ScenarioAuth EXCEPT !.nonce = "n2"]).reason = "AuthorizationAlreadyUsed"

C6_WindowStrict ==
  AllSettles(LAMBDA fn, c, sig, byReceiver, out :
    (fn = "TransferWithAuthorization" /\ (now = c.window[1] \/ now = c.window[2]))
      => out.reason # OK)

\* ------------------------------------------------------------------ C7
\* The reason the rules give when checked in the order not-yet-valid,
\* expired, already-used, invalid-signature; OK when all four pass.
FirstFailingRule(fn, c, sig) ==
  IF ~(now >= c.window[1]) THEN "AuthorizationNotYetValid"
  ELSE IF ~(now <= c.window[2]) THEN "AuthorizationExpired"
  ELSE IF authorizationState(c.from, c.nonce) THEN "AuthorizationAlreadyUsed"
  ELSE IF sig # ExactSig(fn, c) THEN "InvalidAuthorization"
  ELSE OK

\* C7: the authorization checks short-circuit in the order not-yet-valid,
\* expired, already-used, invalid-signature: a call that passes the receiver
\* check and breaks several rules reverts with the reason of the first rule
\* it breaks, and a call that breaks none of them reverts with none of these
\* reasons.
C7_CheckOrder ==
  AllSettles(LAMBDA fn, c, sig, byReceiver, out :
    byReceiver =>
      LET first == FirstFailingRule(fn, c, sig)
      IN  IF first # OK
          THEN out.reason = first
          ELSE out.reason \in {OK, "ERC20InsufficientBalance"})

\* The scenario authorization was settled; submitted again with the
\* inverted window while the clock stands inside it, it breaks all four
\* rules and is rejected as not yet valid; submitted again unchanged it is
\* rejected as already used.
C7_Witness ==
  /\ movedLog[KeyOf(ScenarioAuth)] = 1
  /\ now = 2
  /\ transferWithAuthorizationVRS("A", "B", 1, 3, 1, "n1",
        ExactSig("TransferWithAuthorization", ScenarioAuth)).reason = "AuthorizationNotYetValid"
  /\ Resubmit(ScenarioAuth).reason = "AuthorizationAlreadyUsed"

\* ------------------------------------------------------------------ C8
\* C8: an authorization that is rejected (outside its window, already used,
\* bad signature, unauthorized receiver, or for any other reason) leaves the
\* ledger untouched: nonce registry, wrapped balances, total supply,
\* underlying balances and reserves, and the event log, are those before the
\* call; in particular a call at now < validAfter or now > validBefore is
\* rejected and does not change the nonce registry.
C8_RejectedLeavesLedger ==
  /\ AllSettles(LAMBDA fn, c, sig, byReceiver, out :
        /\ out.reason # OK =>
             /\ out.st.auth = authState
             /\ out.st.bal = balances
             /\ out.st.supply = totalSupply
             /\ out.st.reserves = getReserves
             /\ out.st = Pre
        /\ ~InWindow(c) => (out.reason # OK /\ out.st.auth = authState))
  /\ AllCancels(LAMBDA authorizer, nonce, sig, out :
        out.reason # OK => out.st = Pre)

\* Tokens are in circulation, the scenario authorization was settled, and
\* calls are rejected for each kind of reason: already used, not yet valid
\* (inverted window), bad signature (B's key) and unauthorized receiver (the
\* relayer F calling receiveWithAuthorization).
C8_Witness ==
  /\ totalSupply > 0
  /\ movedLog[KeyOf(ScenarioAuth)] = 1
  /\ now = 2
  /\ Resubmit(ScenarioAuth).reason = "AuthorizationAlreadyUsed"
  /\ Resubmit([ScenarioAuth EXCEPT !.nonce = "n2", !.window = <<3, 1>>]).reason
       = "AuthorizationNotYetValid"
  /\ transferWithAuthorizationVRS("A", "B", 1, 1, 3, "n2",
        signTypedData("B", DOMAIN_SEPARATOR, "TransferWithAuthorization",
                      <<"A", "B", 1, 1, 3, "n2">>)).reason = "InvalidAuthorization"
  /\ receiveWithAuthorizationVRS("F", "A", "B", 1, 1, 3, "n2",
        ExactSig("ReceiveWithAuthorization", [ScenarioAuth EXCEPT !.nonce = "n2"])).reason
       = "UnauthorizedReceiver"

\* ------------------------------------------------------------------ C9
\* The wrapped balances after `value` has moved from `from` to `to`.
MovedBalances(c) ==
  [a \in Addr |->
     balances[a] - (IF a = c.from THEN c.value ELSE 0) + (IF a = c.to THEN c.value ELSE 0)]

\* C9: marking the nonce used and moving the value are one unit: in every
\* reachable state a nonce has been marked used by a transfer (an
\* AuthorizationUsed event) exactly when the value was moved under it; a
\* call that returns has marked the nonce and moved exactly `value` from
\* `from` to `to`, and a call whose token transfer fails (`from` holds less
\* than `value`) leaves the nonce unused and everything else unchanged.
C9_MarkAndMoveAtomic ==
  /\ \A k \in Key :
       /\ usedLog[k] = movedLog[k]
       /\ authState[k] <=> (usedLog[k] + canceledLog[k] > 0)
  /\ AllSettles(LAMBDA fn, c, sig, byReceiver, out :
        /\ out.reason = OK =>
             /\ out.st.auth[KeyOf(c)] /\ ~authState[KeyOf(c)]
             /\ out.st.used[KeyOf(c)] = 1 /\ out.st.moved[KeyOf(c)] = 1
             /\ out.st.bal = MovedBalances(c)
        /\ out.reason = "ERC20InsufficientBalance" =>
             /\ balances[c.from] < c.value
             /\ ~out.st.auth[KeyOf(c)]
             /\ out.st = Pre)

\* The scenario authorization was settled (nonce n1 marked, B credited) and
\* A holds nothing more: settling the same authorization under n2 fails in
\* the token transfer and n2 remains unused.
C9_Witness ==
  /\ usedLog[KeyOf(ScenarioAuth)] = 1
  /\ authorizationState("A", "n1")
  /\ balances["A"] = 0 /\ balances["B"] >= 1
  /\ InWindow(ScenarioAuth)
  /\ ~authorizationState("A", "n2")
  /\ Resubmit([ScenarioAuth EXCEPT !.nonce = "n2"]).reason = "ERC20InsufficientBalance"

\* ----------------------------------------------------------------- C10
\* C10: under one (authorizer, nonce) a transfer and a cancel exclude each
\* other: no reachable state has the value moved and the nonce canceled,
\* the nonce is consumed at most once, and once either has happened every
\* attempt at the other fails.
C10_TransferCancelExclusive ==
  /\ \A k \in Key :
       /\ ~(movedLog[k] > 0 /\ canceledLog[k] > 0)
       /\ usedLog[k] + canceledLog[k] <= 1
  /\ AllSettles(LAMBDA fn, c, sig, byReceiver, out :
        canceledLog[KeyOf(c)] > 0 => (out.reason # OK /\ out.st = Pre))
  /\ AllCancels(LAMBDA authorizer, nonce, sig, out :
        movedLog[<<authorizer, nonce>>] > 0 => (out.reason # OK /\ out.st = Pre))

\* Under n1 the transfer came first and the cancel signed by A is now
\* rejected; under n2 the cancel came first and the transfer signed by A,
\* which A's balance and the clock would allow, is now rejected.
C10_Witness ==
  /\ movedLog[<<"A", "n1">>] = 1 /\ canceledLog[<<"A", "n1">>] = 0
  /\ canceledLog[<<"A", "n2">>] = 1 /\ movedLog[<<"A", "n2">>] = 0
  /\ balances["A"] >= 1
  /\ InWindow(ScenarioAuth)
  /\ cancelAuthorization("A", "n1", signTypedData("A", DOMAIN_SEPARATOR, "CancelAuthorization", <<"A", "n1">>)).reason
       # OK
  /\ Resubmit([ScenarioAuth EXCEPT !.nonce = "n2"]).reason # OK

\* ----------------------------------------------------------------- C11
\* C11: cancelAuthorization on an unused nonce with the authorizer's
\* signature returns, marks that one (authorizer, nonce) entry and emits one
\* AuthorizationCanceled, and moves no value: every wrapped and underlying
\* balance, the total supply, the reserves, every other registry entry and
\* the AuthorizationUsed log are unchanged; with any other signature the
\* call is rejected and changes nothing.
C11_CancelFrame ==
  AllCancels(LAMBDA authorizer, nonce, sig, out :
    LET k == <<authorizer, nonce>>
    IN  /\ (~authState[k] /\ sig = ExactCancelSig(authorizer, nonce)) =>
             /\ out.reason = OK
             /\ out.st.auth = [authState EXCEPT ![k] = TRUE]
             /\ out.st.canceled = [canceledLog EXCEPT ![k] = 1]
             /\ out.st.bal = balances
             /\ out.st.supply = totalSupply
             /\ out.st.ubal = uBal
             /\ out.st.reserves = getReserves
             /\ out.st.used = usedLog
             /\ out.st.moved = movedLog
        /\ sig # ExactCancelSig(authorizer, nonce) =>
             /\ out.reason # OK
             /\ out.st = Pre)

\* A canceled the nonce n1 while holding all the wrapped tokens, no value
\* has moved under it, and a cancellation of n2 signed by B is rejected as
\* InvalidAuthorization while A's own would be accepted.
C11_Witness ==
  /\ canceledLog[<<"A", "n1">>] = 1
  /\ authorizationState("A", "n1")
  /\ movedLog[<<"A", "n1">>] = 0
  /\ balances["A"] = MaxFunds /\ totalSupply = MaxFunds
  /\ cancelAuthorization("A", "n2", ExactCancelSig("B", "n2")).reason = "InvalidAuthorization"
  /\ cancelAuthorization("A", "n2", ExactCancelSig("A", "n2")).reason = OK

\* ----------------------------------------------------------------- C12
\* C12: both styles are honoured.  An authorization `from` signed for the
\* called function, unused, inside its window and covered by `from`'s
\* balance settles: by transferWithAuthorization whoever submits it (the
\* function does not look at the caller), by receiveWithAuthorization when
\* the caller is `to`.  A receiveWithAuthorization call by anyone else
\* never succeeds: it reverts with UnauthorizedReceiver whatever else is
\* wrong with it (window, nonce, signature), and the nonce registry and
\* everything else stay as they were.
C12_PushAndPull ==
  AllSettles(LAMBDA fn, c, sig, byReceiver, out :
    /\ (byReceiver /\ InWindow(c) /\ ~authState[KeyOf(c)] /\ sig = ExactSig(fn, c)
          /\ balances[c.from] >= c.value) => out.reason = OK
    /\ ~byReceiver =>
         /\ fn = "ReceiveWithAuthorization"
         /\ out.reason = "UnauthorizedReceiver"
         /\ out.st = Pre)

\* A holds a token and the scenario authorization is ready under n1: the
\* push call settles it, the pull call settles it when B submits and is
\* rejected when the relayer F submits; F's pull call under the used nonce
\* n2 with the inverted window is rejected as UnauthorizedReceiver too.
C12_Witness ==
  /\ balances["A"] >= 1
  /\ now = 2
  /\ movedLog[<<"A", "n2">>] = 1
  /\ Resubmit(ScenarioAuth).reason = OK
  /\ receiveWithAuthorizationVRS("B", "A", "B", 1, 1, 3, "n1",
        ExactSig("ReceiveWithAuthorization", ScenarioAuth)).reason = OK
  /\ receiveWithAuthorizationVRS("F", "A", "B", 1, 1, 3, "n1",
        ExactSig("ReceiveWithAuthorization", ScenarioAuth)).reason = "UnauthorizedReceiver"
  /\ receiveWithAuthorizationPacked("F", "A", "B", 1, 3, 1, "n2",
        Packed(ExactSig("TransferWithAuthorization", ScenarioAuth))).reason = "UnauthorizedReceiver"

\* ----------------------------------------------------------------- C13
RECURSIVE SumOver(_, _)
SumOver(f, S) ==
  IF S = {} THEN 0
  ELSE LET x == CHOOSE y \in S : TRUE IN f[x] + SumOver(f, S \ {x})

\* C13: the wrapped token is 1:1 backed: in every reachable state, after
\* any sequence of deposit, redeem, transferWithAuthorization,
\* receiveWithAuthorization and cancelAuthorization, the total supply equals
\* the reserves (getReserves) and is the sum of the wrapped balances.
C13_FullyBacked ==
  /\ totalSupply = getReserves
  /\ SumOver(balances, Addr) = totalSupply

\* After a deposit by A, a transfer to B under n1, a redeem by B and a
\* cancellation of n2, one wrapped token is left, backed by one underlying.
C13_Witness ==
  /\ movedLog[<<"A", "n1">>] = 1
  /\ canceledLog[<<"A", "n2">>] = 1
  /\ uBal["B"] = 1
  /\ balances["A"] = MaxFunds - 1
  /\ totalSupply = MaxFunds - 1 /\ getReserves = MaxFunds - 1

\* ----------------------------------------------------------------- C14
\* C14: round trip: whenever an account holds x > 0 underlying and has
\* approved at least x, deposit(x) succeeds, credits x wrapped and debits x
\* underlying, and redeem(x) by the same account right after it succeeds
\* and returns the account's underlying and wrapped balances, the total
\* supply and the reserves (the whole storage) to their values before the
\* deposit: no fee is taken.
C14_RoundTrip ==
  \A sender \in Addr, x \in Amount, allowance \in Amount :
    (x > 0 /\ uBal[sender] >= x /\ allowance >= x) =>
      LET d == deposit(sender, x, allowance)
          r == redeemFrom(d.st, sender, x)
      IN  /\ d.reason = OK
          /\ d.st.bal[sender] = balances[sender] + x
          /\ d.st.ubal[sender] = uBal[sender] - x
          /\ d.st.supply = totalSupply + x
          /\ d.st.reserves = getReserves + x
          /\ r.reason = OK
          /\ r.st.ubal = uBal
          /\ r.st.bal = balances
          /\ r.st.supply = totalSupply
          /\ r.st.reserves = getReserves
          /\ r.st = Pre

\* B redeemed a token it was paid and now holds one underlying and no
\* wrapped token, while A's wrapped token is still in circulation: B can
\* make the round trip with x = 1.
C14_Witness ==
  /\ uBal["B"] = 1 /\ balances["B"] = 0
  /\ movedLog[<<"A", "n1">>] = 1
  /\ totalSupply = 1 /\ balances["A"] = 1
  /\ deposit("B", 1, 1).reason = OK
  /\ redeemFrom(deposit("B", 1, 1).st, "B", 1).st = Pre

AllSettleRequests(P(_, _, _, _)) ==
  \A p \in Payloads, compliance \in {NoCompliance, SomeCompliance}, env \in SettleEnv :
    P(p, compliance, env, FacilitatorSettle(p, compliance, env))

\* /verify has answered the request being handled.
VerifyAnswered == verifyData # NoVerifyData

\* C16: verify before settle.  The resource server calls /settle only for a
\* request whose /verify answered valid, and the ledger is submitted to
\* only in such a /settle; in the facilitator's /settle the ledger is
\* submitted to only when its own verification passes.  When verification
\* fails the request ends with success=false and the verifier's reason
\* (a 402 from /buy), and neither /settle nor the ledger was invoked for it.
C16_VerifyBeforeSettle ==
  /\ buyCalls.settle > 0 => (buyCalls.verify > 0 /\ VerifyAnswered /\ verifyData.isValid)
  /\ buyCalls.ledger > 0 => (buyCalls.settle > 0 /\ verifyData.isValid)
  /\ (VerifyAnswered /\ ~verifyData.isValid) =>
       /\ buyPc = "done"
       /\ buyResponse.status = 402
       /\ buyResponse.header.sent
       /\ buyResponse.header.success = FALSE
       /\ buyResponse.header.errorReason = verifyData.invalidReason
       /\ buyResponse.header.errorReason \in
            {"not-yet-valid", "expired", "already-used", "invalid-signature"}
       /\ buyCalls.settle = 0 /\ buyCalls.ledger = 0
       /\ settleData = NoSettleData
  /\ AllSettleRequests(LAMBDA p, compliance, env, fs :
       VerifyAuthorization(p) # OK =>
         /\ fs.ledger = 0
         /\ fs.st = Pre
         /\ fs.response.success = FALSE
         /\ fs.response.errorReason = VerifyAuthorization(p))

\* A paid for one coffee earlier; its next request, made after the window
\* of the authorization closed, was rejected by /verify as expired and
\* answered 402 without a /settle call.
C16_Witness ==
  /\ coffees["A"] = One
  /\ buyPc = "done"
  /\ verifyData.invalidReason = "expired"
  /\ buyResponse.status = 402
  /\ buyCalls = [verify |-> 1, settle |-> 0, ledger |-> 0]
  /\ balances["A"] >= 1

\* ----------------------------------------------------------------- C17
\* The ledger confirms the transfer of `p` in time.
LedgerConfirms(p, env) ==
  /\ env.timing = "confirmed"
  /\ transferWithAuthorizationVRS(p.from, p.to, p.value, p.validAfter, p.validBefore,
                                  p.nonce, p.signature).reason = OK

\* C17: a settle request whose authorization verifies and whose transfer
\* the ledger confirms completes with success=true, the transaction
\* reference of the transfer and no errorReason whether or not the receipt
\* upload succeeds; with compliance and a failed upload the response has no
\* receipt field.  In every state the /settle response of the request being
\* handled reports success only with the value moved, and a response with
\* success=true for a request with compliance may lack the receipt.
C17_PublishFailureKeepsSuccess ==
  /\ AllSettleRequests(LAMBDA p, compliance, env, fs :
       (VerifyAuthorization(p) = OK /\ LedgerConfirms(p, env)) =>
         /\ fs.response.success = TRUE
         /\ fs.response.transaction = TxRef(p)
         /\ fs.response.errorReason = Undefined
         /\ fs.st.moved[<<p.from, p.nonce>>] = 1
         /\ (compliance # NoCompliance /\ ~env.publish) => fs.response.receipt = NoReceipt)
  /\ settleData.success =>
       /\ settleData.transaction = TxRef(buyReq.paymentPayload)
       /\ movedLog[<<buyReq.paymentPayload.from, buyReq.paymentPayload.nonce>>] = 1

\* A request with compliance data was settled (B was paid under n1) while
\* the receipt upload failed: /settle answered success=true with the
\* transaction reference and without receipt, and /buy answered 200.
C17_Witness ==
  /\ buyPc = "done"
  /\ buyReq.compliance = SomeCompliance
  /\ settleData.success
  /\ settleData.transaction = "0xtx-A-n1"
  /\ settleData.receipt = NoReceipt
  /\ balances["B"] = 1
  /\ buyResponse.status = 200

\* ----------------------------------------------------------------- C18
\* C18: a /settle response has a receipt field only if the request carried
\* compliance data, the settlement succeeded and the receipt was published;
\* a request without compliance data never gets one.  The /buy response
\* contains a receipt only when the /settle response of the request did,
\* and then it is that receipt, on a 200.
C18_ReceiptOnlyWhenPublished ==
  /\ AllSettleRequests(LAMBDA p, compliance, env, fs :
       /\ fs.response.receipt # NoReceipt =>
            /\ compliance # NoCompliance
            /\ fs.response.success = TRUE
            /\ env.publish /\ fs.published
            /\ fs.response.receipt = ReceiptFor(p, fs.response.transaction, compliance)
       /\ compliance = NoCompliance => (fs.response.receipt = NoReceipt /\ ~fs.published))
  /\ settleData.receipt # NoReceipt =>
       (buyReq.compliance # NoCompliance /\ settleData.success)
  /\ buyResponse.receipt # NoReceipt =>
       /\ settleData.receipt # NoReceipt
       /\ buyResponse.receipt = settleData.receipt
       /\ buyResponse.status = 200

\* A request with compliance data was settled and its receipt published:
\* the 200 of /buy carries the receipt of the /settle response.
C18_Witness ==
  /\ buyPc = "done"
  /\ buyReq.compliance = SomeCompliance
  /\ buyResponse.status = 200
  /\ buyResponse.receipt # NoReceipt
  /\ buyResponse.receipt.transactionHash = "0xtx-A-n1"
  /\ buyResponse.receipt.items = SomeCompliance.items
  /\ settleData.receipt = buyResponse.receipt

\* ----------------------------------------------------------------- C19
\* The standard fields of a /settle response.
StandardFields(response) ==
  [success |-> response.success, transaction |-> response.transaction,
   network |-> response.network, payer |-> response.payer,
   errorReason |-> response.errorReason]

\* C19: backward compatibility.  For the same authorization and the same
\* behaviour of the ledger and of the receipt store, a settle request with
\* compliance data and one without get the same success, transaction,
\* network, payer and errorReason and leave the ledger in the same state
\* after the same number of submissions; the responses differ at most in
\* the receipt field.  The /buy response built from either has the same
\* status, the same X-PAYMENT-RESPONSE and the same purchase counts.
C19_BackwardCompatible ==
  \A p \in Payloads, env \in SettleEnv :
    LET with == FacilitatorSettle(p, SomeCompliance, env)
        without == FacilitatorSettle(p, NoCompliance, env)
        reqWith == [amount |-> One, paymentPayload |-> p, compliance |-> SomeCompliance]
        reqWithout == [amount |-> One, paymentPayload |-> p, compliance |-> NoCompliance]
        buyWith == BuyOnSettle(reqWith, with.response, coffees)
        buyWithout == BuyOnSettle(reqWithout, without.response, coffees)
    IN  /\ StandardFields(with.response) = StandardFields(without.response)
        /\ with.st = without.st
        /\ with.ledger = without.ledger
        /\ [with.response EXCEPT !.receipt = NoReceipt] = without.response
        /\ buyWith.response.status = buyWithout.response.status
        /\ buyWith.response.header = buyWithout.response.header
        /\ buyWith.coffees = buyWithout.coffees

\* A request with compliance data was settled under n2 with a published
\* receipt; its standard fields and the header of the 200 are those a
\* request without compliance data gets for the same transfer.
C19_Witness ==
  /\ buyPc = "done"
  /\ buyReq.compliance = SomeCompliance
  /\ settleData.receipt # NoReceipt
  /\ StandardFields(settleData) =
       [success |-> TRUE, transaction |-> "0xtx-A-n2", network |-> NETWORK,
        payer |-> "A", errorReason |-> Undefined]
  /\ buyResponse.header = PaymentResponseHeader(TRUE, Undefined, "0xtx-A-n2", NETWORK, "A")
  /\ coffees["A"] = One

\* ----------------------------------------------------------------- C20
\* C20: a settle request whose authorization verifies and whose transfer
\* the ledger rejects or does not confirm in time is answered success=false
\* with the ledger's reason and whatever transaction reference the
\* submission produced (none when there is none).  /buy answers such a
\* /settle response with a 402 whose X-PAYMENT-RESPONSE has success=false,
\* the same errorReason and the same transaction reference, the empty
\* string when the response has none, and counts no purchase.
C20_SettlementFailure ==
  /\ AllSettleRequests(LAMBDA p, compliance, env, fs :
       (VerifyAuthorization(p) = OK /\ ~LedgerConfirms(p, env)) =>
         /\ fs.response.success = FALSE
         /\ fs.ledger = 1
         /\ fs.response.transaction = submitTransfer(p, env).ref
         /\ fs.response.transaction = (IF env.ref THEN TxRef(p) ELSE Undefined)
         /\ fs.response.errorReason = submitTransfer(p, env).reason
         /\ fs.response.receipt = NoReceipt
         /\ \A req \in {[amount |-> One, paymentPayload |-> p, compliance |-> compliance]} :
              LET buy == BuyOnSettle(req, fs.response, coffees)
              IN  /\ buy.response.status = 402
                  /\ buy.response.header.success = FALSE
                  /\ buy.response.header.transaction = (IF env.ref THEN TxRef(p) ELSE "")
                  /\ buy.coffees = coffees)
  /\ (settleData # NoSettleData /\ ~settleData.success) =>
       /\ buyPc = "done"
       /\ buyResponse.status = 402
       /\ buyResponse.header.sent
       /\ buyResponse.header.success = FALSE
       /\ buyResponse.header.errorReason = settleData.errorReason
       /\ buyResponse.header.transaction =
            (IF settleData.transaction = Undefined THEN "" ELSE settleData.transaction)
       /\ buyResponse.receipt = NoReceipt

\* The ledger did not confirm the transfer under n1 in time: /settle
\* answered success=false with the reference of the submitted transaction
\* and /buy answered 402 with that reference in X-PAYMENT-RESPONSE.
C20_Witness ==
  /\ buyPc = "done"
  /\ verifyData.isValid
  /\ settleData.success = FALSE
  /\ settleData.errorReason = "timed-out"
  /\ settleData.transaction = "0xtx-A-n1"
  /\ buyResponse.status = 402
  /\ buyResponse.header.success = FALSE
  /\ buyResponse.header.transaction = "0xtx-A-n1"

\* The ledger rejected the transfer and no transaction exists: /buy
\* answered 402 with an empty transaction reference.
C20_WitnessNoReference ==
  /\ buyPc = "done"
  /\ verifyData.isValid
  /\ settleData.success = FALSE
  /\ settleData.transaction = Undefined
  /\ buyResponse.status = 402
  /\ buyResponse.header.transaction = ""

\* ----------------------------------------------------------------- C21
\* The printable ASCII characters: codes 32 to 95 and codes 97 to 126.
Ascii32 == " !\"#$%&'()*+,-./0123456789:;<=>?@ABCDEFGHIJKLMNOPQRSTUVWXYZ[\\]^_"
Ascii97 == "abcdefghijklmnopqrstuvwxyz{|}~"

Char(s, i) == SubSeq(s, i, i)

\* text.charCodeAt(i) of an ASCII character.
CharCode ==
  [c \in {Char(Ascii32, i) : i \in 1..Len(Ascii32)} \cup {Char(Ascii97, i) : i \in 1..Len(Ascii97)} |->
     IF \E i \in 1..Len(Ascii32) : Char(Ascii32, i) = c
     THEN 31 + CHOOSE i \in 1..Len(Ascii32) : Char(Ascii32, i) = c
     ELSE 96 + CHOOSE i \in 1..Len(Ascii97) : Char(Ascii97, i) = c]

\* String.fromCharCode(code)
FromCharCode(code) ==
  IF code >= 97 THEN Char(Ascii97, code - 96) ELSE Char(Ascii32, code - 31)

\* parts[lo] \o ... \o parts[hi], for texts as for sequences; `empty` is ""
\* or <<>>.
RECURSIVE Join(_, _, _, _)
Join(parts, lo, hi, empty) ==
  IF lo > hi THEN empty
  ELSE IF lo = hi THEN parts[lo]
  ELSE LET mid == (lo + hi) \div 2
       IN  Join(parts, lo, mid, empty) \o Join(parts, mid + 1, hi, empty)

\* Buffer.from(text): the bytes of an ASCII text.
BufferFrom(text) == [i \in 1..Len(text) |-> CharCode[Char(text, i)]]

\* The text whose characters have the given codes.
FromCharCodes(bytes) ==
  Join([i \in 1..Len(bytes) |-> FromCharCode(bytes[i])], 1, Len(bytes), "")

Base64Alphabet == "ABCDEFGHIJKLMNOPQRSTUVWXYZabcdefghijklmnopqrstuvwxyz0123456789+/"

Base64Index == [c \in {Char(Base64Alphabet, i) : i \in 1..64} |->
                  (CHOOSE i \in 1..64 : Char(Base64Alphabet, i) = c) - 1]

\* One group of the base64 encoding: 1 to 3 bytes give 4 characters.
Base64Group(bs) ==
  LET b(i) == IF i <= Len(bs) THEN bs[i] ELSE 0
      n == b(1) * 65536 + b(2) * 256 + b(3)
      sextet == <<n \div 262144, (n \div 4096) % 64, (n \div 64) % 64, n % 64>>
      c(i) == IF i <= Len(bs) + 1 THEN Char(Base64Alphabet, sextet[i] + 1) ELSE "="
  IN  c(1) \o c(2) \o c(3) \o c(4)

\* buffer.toString("base64")
ToBase64(bs) ==
  LET groups == (Len(bs) + 2) \div 3
      last(g) == IF 3 * g <= Len(bs) THEN 3 * g ELSE Len(bs)
  IN  Join([g \in 1..groups |-> Base64Group(SubSeq(bs, 3 * g - 2, last(g)))], 1, groups, "")

\* One group of atob: 4 characters give 1 to 3 bytes.
AtobGroup(cs) ==
  LET v(i) == IF Char(cs, i) = "=" THEN 0 ELSE Base64Index[Char(cs, i)]
      n == v(1) * 262144 + v(2) * 4096 + v(3) * 64 + v(4)
      k == IF Char(cs, 3) = "=" THEN 1 ELSE IF Char(cs, 4) = "=" THEN 2 ELSE 3
  IN  SubSeq(<<n \div 65536, (n \div 256) % 256, n % 256>>, 1, k)

\* atob(header): the text whose characters are the decoded bytes.
AtobBytes(cs) ==
  LET groups == Len(cs) \div 4
  IN  Join([g \in 1..groups |-> AtobGroup(SubSeq(cs, 4 * g - 3, 4 * g))], 1, groups, <<>>)

atob(cs) == FromCharCodes(AtobBytes(cs))

\* A value of the parsed JSON: a string, a boolean, or undefined.
JsString(str) == [t |-> "string", s |-> str, b |-> FALSE]
JsBoolean(bool) == [t |-> "boolean", s |-> "", b |-> bool]
JsUndefined == [t |-> "undefined", s |-> "", b |-> FALSE]

\* The members of the settlementResponse object, in the order the handler
\* writes them; a field the object does not have, or has as undefined, is
\* Undefined.
SettlementMembers(h) ==
  << <<"success", JsBoolean(h.success)>>,
     <<"errorReason", IF h.errorReason = Undefined THEN JsUndefined ELSE JsString(h.errorReason)>>,
     <<"transaction", IF h.transaction = Undefined THEN JsUndefined ELSE JsString(h.transaction)>>,
     <<"network", IF h.network = Undefined THEN JsUndefined ELSE JsString(h.network)>>,
     <<"payer", IF h.payer = Undefined THEN JsUndefined ELSE JsString(h.payer)>> >>

\* JSON.stringify of a flat object: members with an undefined value are
\* left out (the strings of the model need no escaping).
JSONValue(v) == IF v.t = "boolean" THEN (IF v.b THEN "true" ELSE "false")
                ELSE "\"" \o v.s \o "\""

JSONMember(m) == "\"" \o m[1] \o "\":" \o JSONValue(m[2])

JSONStringify(ms) ==
  LET present == SelectSeq(ms, LAMBDA m : m[2].t # "undefined")
  IN  "{" \o Join([i \in 1..Len(present) |->
                    (IF i = 1 THEN "" ELSE ",") \o JSONMember(present[i])],
                  1, Len(present), "") \o "}"

\* encodeSettlementResponse(settlement)
encodeSettlementResponse(h) == ToBase64(BufferFrom(JSONStringify(SettlementMembers(h))))

\* The X-PAYMENT-RESPONSE header of a response, "" when it has none.
XPaymentResponse(response) ==
  IF response.header.sent THEN encodeSettlementResponse(response.header) ELSE ""

\* The position of the first character c of text at or after i, 0 if none.
RECURSIVE IndexOf(_, _, _)
IndexOf(text, c, i) ==
  IF i > Len(text) THEN 0
  ELSE IF Char(text, i) = c THEN i
  ELSE IndexOf(text, c, i + 1)

\* JSON.parse of the members of a flat object from position i on: the
\* sequence of <<key, value>>, or <<"SyntaxError">>.
RECURSIVE ParseMembers(_, _)
ParseMembers(text, i) ==
  LET keyEnd == IndexOf(text, "\"", i + 1)
      at == keyEnd + 2
      strEnd == IndexOf(text, "\"", at + 1)
      isString == Char(text, at) = "\""
      isTrue == SubSeq(text, at, at + 3) = "true"
      isFalse == SubSeq(text, at, at + 4) = "false"
      value == IF isString THEN JsString(SubSeq(text, at + 1, strEnd - 1))
               ELSE JsBoolean(isTrue)
      next == IF isString THEN strEnd + 1 ELSE IF isTrue THEN at + 4 ELSE at + 5
      rest == IF Char(text, next) = "," THEN ParseMembers(text, next + 1) ELSE <<>>
  IN  IF \/ i > Len(text) \/ Char(text, i) # "\"" \/ keyEnd = 0
         \/ at > Len(text) \/ Char(text, keyEnd + 1) # ":"
         \/ ~(isString \/ isTrue \/ isFalse) \/ (isString /\ strEnd = 0)
         \/ next > Len(text) \/ Char(text, next) \notin {",", "}"}
         \/ (Char(text, next) = "}" /\ next # Len(text))
         \/ rest = <<"SyntaxError">>
      THEN <<"SyntaxError">>
      ELSE << <<SubSeq(text, i + 1, keyEnd - 1), value>> >> \o rest

JSONParse(text) ==
  IF Len(text) < 2 \/ Char(text, 1) # "{" THEN <<"SyntaxError">>
  ELSE IF text = "{}" THEN <<>>
  ELSE ParseMembers(text, 2)

\* object[key] of a parsed object.
Member(obj, key) ==
  IF \E i \in 1..Len(obj) : obj[i][1] = key
  THEN obj[CHOOSE i \in 1..Len(obj) : obj[i][1] = key /\ \A j \in (i + 1)..Len(obj) : obj[j][1] # key][2]
  ELSE JsUndefined

\* z.templateLiteral(["0x", z.string()]); the account names of the model
\* stand for 0x-prefixed addresses.
Is0xString(v) ==
  /\ v.t = "string"
  /\ \/ v.s \in Addr
     \/ (Len(v.s) >= 2 /\ SubSeq(v.s, 1, 2) = "0x")

\* What the client holds when the header is absent or does not parse.
NoSettlementResponse ==
  [parsed |-> FALSE, success |-> FALSE, transaction |-> Undefined, network |-> Undefined,
   payer |-> Undefined]

\* buyCoffee: PaymentResponseHeaderSchema.parse(JSON.parse(atob(header)))
\* inside try/catch; the schema keeps success, transaction, network, payer.
parsedSettlementResponse(header) ==
  IF Len(header) = 0 THEN NoSettlementResponse
  ELSE LET obj == JSONParse(atob(header))
       IN  IF obj = <<"SyntaxError">> THEN NoSettlementResponse
           ELSE IF /\ Member(obj, "success").t = "boolean"
                   /\ Is0xString(Member(obj, "transaction"))
                   /\ Member(obj, "network").t = "string"
                   /\ Is0xString(Member(obj, "payer"))
           THEN [parsed |-> TRUE, success |-> Member(obj, "success").b,
                 transaction |-> Member(obj, "transaction").s,
                 network |-> Member(obj, "network").s, payer |-> Member(obj, "payer").s]
           ELSE NoSettlementResponse

\* The summary {success, transaction, network, payer} of the outcome of the
\* request being handled: of its /settle response when there is one, of
\* its failed verification otherwise.
OutcomeSummary ==
  IF settleData # NoSettleData
  THEN [parsed |-> TRUE, success |-> settleData.success,
        transaction |-> OrElse(settleData.transaction, ""),
        network |-> OrElse(settleData.network, NETWORK), payer |-> OrElse(settleData.payer, "")]
  ELSE [parsed |-> TRUE, success |-> FALSE, transaction |-> "", network |-> NETWORK,
        payer |-> OrElse(verifyData.payer, "")]

\* A /buy response made after /verify answered: the 402 of a failed
\* verification, the 402 of a failed settlement, or the 200.
AfterVerifyResponse ==
  /\ buyPc = "done"
  /\ VerifyAnswered
  /\ buyResponse.status \in {200, 402}

\* C21: every /buy response made after /verify answered carries an
\* X-PAYMENT-RESPONSE header, and what the client gets from it
\* (schema-parsing the JSON of its base64 decoding, without the body) is
\* the summary {success, transaction, network, payer} of the outcome.
C21_ClientDecodesHeader ==
  AfterVerifyResponse =>
    /\ buyResponse.header.sent
    /\ parsedSettlementResponse(XPaymentResponse(buyResponse)) = OutcomeSummary

\* What holds of the header on the wire: its base64 decoding is the JSON
\* text of the handler's settlementResponse object, which parses to the
\* members of the outcome (errorReason included on a failure).
HeaderOnTheWire ==
  AfterVerifyResponse =>
    /\ buyResponse.header.sent
    /\ atob(XPaymentResponse(buyResponse)) = JSONStringify(SettlementMembers(buyResponse.header))
    /\ LET obj == JSONParse(atob(XPaymentResponse(buyResponse)))
       IN  /\ Member(obj, "success") = JsBoolean(OutcomeSummary.success)
           /\ Member(obj, "transaction") = JsString(OutcomeSummary.transaction)
           /\ Member(obj, "network") = JsString(OutcomeSummary.network)
           /\ Member(obj, "payer") = JsString(OutcomeSummary.payer)

\* The client does get the summary from the header of a 200.
ClientDecodesSuccess ==
  (AfterVerifyResponse /\ buyResponse.status = 200) =>
    parsedSettlementResponse(XPaymentResponse(buyResponse)) = OutcomeSummary

\* ----------------------------------------------------------------- C22
\* The request is one the handler must refuse at once: its amount is
\* missing or not positive, it has no paymentPayload, or its paymentPayload
\* is for another network.
Malformed(req) ==
  \/ req.amount <= 0
  \/ req.paymentPayload = NoPayload
  \/ req.paymentPayload.network # NETWORK

\* C22: a malformed /buy request is answered 400 (bad amount, other
\* network) or 402 (no paymentPayload) by the validation itself, with no
\* X-PAYMENT-RESPONSE, and no call to /verify or /settle and no ledger
\* submission is made for it; the handler is waiting for /verify or
\* /settle only for a request that is not malformed.
C22_MalformedRejectedFirst ==
  /\ \A amount \in Amounts, payload \in Payloads \cup {NoPayload},
        compliance \in {NoCompliance, SomeCompliance} :
       LET req == [amount |-> amount, paymentPayload |-> payload, compliance |-> compliance]
           r == BuyValidate(req)
       IN  /\ Malformed(req) <=> r # NoResponse
           /\ Malformed(req) =>
                /\ r.status = (IF amount > 0 /\ payload = NoPayload THEN 402 ELSE 400)
                /\ r.header = NoHeader
  /\ (buyPc = "done" /\ Malformed(buyReq)) =>
       /\ buyResponse.status \in {400, 402}
       /\ buyResponse = BuyValidate(buyReq)
       /\ buyCalls = NoCalls
       /\ verifyData = NoVerifyData
       /\ settleData = NoSettleData
  /\ buyPc \in {"verify", "settle"} => ~Malformed(buyReq)
  /\ (buyCalls.verify > 0 \/ buyCalls.settle > 0 \/ buyCalls.ledger > 0) => ~Malformed(buyReq)

\* After an earlier purchase was settled, a request whose paymentPayload is
\* for another network was answered 400 without a facilitator call.
C22_Witness ==
  /\ buyPc = "done"
  /\ coffees["A"] = One
  /\ buyReq.amount = 1
  /\ buyReq.paymentPayload # NoPayload
  /\ buyReq.paymentPayload.network = "base-sepolia"
  /\ buyResponse.status = 400
  /\ buyCalls = NoCalls

\* ----------------------------------------------------------------- C23
\* The reason codes of authorization errors and of ledger errors.
AuthorizationErrors == {"not-yet-valid", "expired", "already-used", "invalid-signature"}
LedgerErrors == {"rejected", "timed-out"}

\* The errorReason the caller reads in the X-PAYMENT-RESPONSE of a response.
DeliveredReason(response) == Member(JSONParse(atob(XPaymentResponse(response))), "errorReason")

\* Whatever reason code /verify or /settle gives with a failure, the 402
\* the handler builds from it delivers that code.
HandlerPassesReasons ==
  \A reason \in AuthorizationErrors \cup LedgerErrors, payer \in {"A", Undefined} :
    LET req == [amount |-> One, paymentPayload |-> CHOOSE p \in Payloads : TRUE,
                compliance |-> NoCompliance]
        vd == [isValid |-> FALSE, invalidReason |-> reason, payer |-> payer]
        sd == [NoSettleData EXCEPT !.errorReason = reason, !.payer = payer]
    IN  /\ DeliveredReason(BuyOnVerify(req, vd)) = JsString(reason)
        /\ DeliveredReason(BuyOnSettle(req, sd, [a \in Addr |-> 0]).response) = JsString(reason)

\* C23: when /verify answers invalid, or /settle answers success=false, the
\* errorReason the caller reads in X-PAYMENT-RESPONSE is exactly the
\* invalidReason, respectively errorReason, of that facilitator response;
\* the handler passes on every reason code it is given unchanged.
C23_ReasonsVerbatim ==
  /\ (buyPc = "done" /\ VerifyAnswered /\ ~verifyData.isValid) =>
       /\ verifyData.invalidReason \in AuthorizationErrors
       /\ DeliveredReason(buyResponse) = JsString(verifyData.invalidReason)
  /\ (buyPc = "done" /\ settleData # NoSettleData /\ ~settleData.success) =>
       /\ settleData.errorReason # Undefined
       /\ DeliveredReason(buyResponse) = JsString(settleData.errorReason)
  /\ HandlerPassesReasons

\* /verify passed and the ledger rejected the transfer: the 402 carries the
\* ledger's reason; and (C23_WitnessVerify) /verify answered expired and
\* the 402 carries that.
C23_Witness ==
  /\ buyPc = "done"
  /\ verifyData.isValid
  /\ settleData # NoSettleData
  /\ ~settleData.success
  /\ settleData.errorReason \notin {Undefined, "timed-out"}
  /\ buyResponse.status = 402
  /\ DeliveredReason(buyResponse) = JsString(settleData.errorReason)

C23_WitnessVerify ==
  /\ buyPc = "done"
  /\ verifyData.invalidReason = "expired"
  /\ buyResponse.status = 402
  /\ DeliveredReason(buyResponse) = JsString("expired")

\* ----------------------------------------------------------------- C24
\* C24: no automatic retry.  For each request at most one /verify call, at
\* most one /settle call and at most one ledger submission are made; a
\* settle request makes at most one submission whatever the ledger does;
\* and once /settle has answered, with a failure or a timeout as with a
\* success, the request is finished after exactly one /settle call and at
\* most one submission.
C24_NoRetry ==
  /\ buyCalls.verify <= 1
  /\ buyCalls.settle <= 1
  /\ buyCalls.ledger <= 1
  /\ AllSettleRequests(LAMBDA p, compliance, env, fs : fs.ledger <= 1)
  /\ settleData # NoSettleData =>
       /\ buyPc = "done"
       /\ buyCalls.verify = 1
       /\ buyCalls.settle = 1
       /\ buyCalls.ledger = (IF settleData.errorReason \in AuthorizationErrors THEN 0 ELSE 1)

\* The ledger did not confirm in time and the transfer never landed: the
\* request ended with a 402 after one /verify, one /settle and one
\* submission, and nothing was sent again.
C24_Witness ==
  /\ buyPc = "done"
  /\ settleData.errorReason = "timed-out"
  /\ buyResponse.status = 402
  /\ buyCalls = [verify |-> 1, settle |-> 1, ledger |-> 1]
  /\ movedLog[<<"A", buyReq.paymentPayload.nonce>>] = 0

\* ----------------------------------------------------------------- C25
\* C25: verification is read-only and idempotent.  Every /verify call,
\* the authorizationState lookup included, leaves the nonce registry, the
\* balances, the supply, the reserves and the events as they were, so any
\* number of them in any order does; after it every authorization verifies
\* as before it; and a call that follows a call for the same authorization
\* with no settle, cancel or time step between them answers the same.
C25_VerifyReadOnly ==
  [][VerifyCall =>
       /\ UNCHANGED <<ledgerVars, logVars, now>>
       /\ \A p \in Payloads : FacilitatorVerify(p)' = FacilitatorVerify(p)
       /\ (lastVerify.streak > 0 /\ lastVerify'.payload = lastVerify.payload) =>
            /\ lastVerify'.isValid = lastVerify.isValid
            /\ lastVerify'.invalidReason = lastVerify.invalidReason]_vars

\* A's authorization under n1 was verified twice in a row while A held the
\* value: both answers are valid and the nonce is still unused.
C25_Witness ==
  /\ lastVerify.streak = MaxStreak
  /\ lastVerify.isValid
  /\ lastVerify.payload.nonce = "n1"
  /\ balances["A"] = 1
  /\ ~authState[<<"A", "n1">>]
  /\ \A k \in Key : usedLog[k] = 0

\* ----------------------------------------------------------------- C26
\* The receipts of a sequence, as a set.
Range(seq) == {seq[i] : i \in 1..Len(seq)}

NoReceiptField == ReceiptSummary(NoFullReceipt)

\* Receipts exist only for settled requests with compliance input.
ReceiptsOnlyOfSettled ==
  /\ \A w \in Workers :
       /\ facPc[w] \in {"generating", "backup", "publishing"} =>
            (facOut[w].response.success /\ facReq[w].compliance.present)
       /\ facOut[w].receipt # NoFullReceipt =>
            /\ facOut[w].response.success
            /\ facReq[w].compliance.present
            /\ facOut[w].receipt.transactionHash = facOut[w].response.transaction
            /\ facOut[w].receipt \in Range(issued)
       /\ (facPc[w] # "idle" /\ ~facOut[w].response.success) =>
            /\ facOut[w].receipt = NoFullReceipt
            /\ facOut[w].response.receipt = NoReceiptField
       /\ (facPc[w] # "idle" /\ ~facReq[w].compliance.present) =>
            /\ facOut[w].receipt = NoFullReceipt
            /\ facOut[w].response.receipt = NoReceiptField
  /\ \A r \in Range(issued) :
       \E p \in ReceiptPayloads : r.transactionHash = TxRef(p) /\ movedLog[<<p.from, p.nonce>>] = 1
  /\ \A i, j \in 1..Len(issued) : i # j => issued[i].transactionHash # issued[j].transactionHash
  /\ Range(stored) \subseteq Range(issued)
  /\ backups \subseteq Range(issued)
  /\ \A i, j \in 1..Len(stored) : i # j => stored[i].receiptId # stored[j].receiptId

\* What is persisted stays as it was written.
PersistedForGood ==
  /\ Len(stored') \in {Len(stored), Len(stored) + 1}
  /\ \A i \in 1..Len(stored) : stored'[i] = stored[i]
  /\ Len(issued') \in {Len(issued), Len(issued) + 1}
  /\ \A i \in 1..Len(issued) : issued'[i] = issued[i]
  /\ backups \subseteq backups'

\* C26: a receipt is built, backed up and published only by a worker whose
\* request carried compliance input and whose transfer the ledger
\* confirmed; every receipt is of a transfer that moved value, one per
\* transfer; a worker whose settlement was rejected, failed or timed out
\* has no receipt and answers without the receipt field; a stored object is
\* written once and no step changes or removes it.
C26_ReceiptOnlyAfterSettled ==
  []ReceiptsOnlyOfSettled /\ [][PersistedForGood]_vars

\* One worker settled a request with compliance input and published its
\* receipt while the other's request, also with compliance input, failed:
\* one receipt is stored and the failed request has none.
C26_Witness ==
  /\ Len(stored) = 1 /\ Len(issued) = 1
  /\ facPc["w1"] = "complete" /\ facPc["w2"] = "complete"
  /\ facOut["w1"].response.success
  /\ facOut["w1"].response.receipt = ReceiptSummary(stored[1])
  /\ ~facOut["w2"].response.success
  /\ facReq["w2"].compliance.present
  /\ facOut["w2"].response.receipt = NoReceiptField

\* ----------------------------------------------------------------- C27
\* The receipts built have different, strictly increasing numbers.
NumbersIncrease ==
  /\ \A i, j \in 1..Len(issued) :
       i < j => /\ issued[i].sequence < issued[j].sequence
                /\ issued[i].receiptNumber # issued[j].receiptNumber
  /\ \A r \in Range(issued) : r.sequence \in 1..receiptSeq
  /\ receiptSeq = Len(issued)

\* C27: under every interleaving of the workers, no two receipts share a
\* receiptNumber, the numbers grow strictly in the order the receipts are
\* built, every number drawn is counted, and the counter never goes back.
C27_ReceiptNumbersUnique ==
  []NumbersIncrease /\ [][receiptSeq' >= receiptSeq]_vars

\* Both workers have built a receipt and neither has published yet: the
\* receipts are numbered 0001 and 0002.
C27_Witness ==
  /\ facPc["w1"] \in {"backup", "publishing"}
  /\ facPc["w2"] \in {"backup", "publishing"}
  /\ Len(issued) = 2
  /\ issued[1].receiptNumber = "2025-0001"
  /\ issued[2].receiptNumber = "2025-0002"
  /\ facOut["w2"].receipt = issued[1]

\* ----------------------------------------------------------------- C28
\* generatedAt + n years
PlusYears(instant, n) == [instant EXCEPT !.year = @ + n]

\* The builder on every compliance input, sequence value and time.
BuilderCarriesInput ==
  \A compliance \in ComplianceInputs \ {NoComplianceInput}, sequence \in 1..2, t \in Time :
    LET response == SettleResponse(TRUE, "0xtx-A-n1", NETWORK, "A", Undefined, NoFullReceipt)
        receipt == build(response, compliance, sequence, t)
    IN  /\ receipt.items = compliance.items
        /\ Len(receipt.items) = Len(compliance.items)
        /\ \A i \in 1..Len(compliance.items) :
             /\ receipt.items[i].description = compliance.items[i].description
             /\ receipt.items[i].quantity = compliance.items[i].quantity
             /\ receipt.items[i].unitPrice = compliance.items[i].unitPrice
             /\ receipt.items[i].total = compliance.items[i].total
        /\ compliance.retentionYears = 0 =>
             receipt.expiresAt = PlusYears(receipt.generatedAt, DefaultRetentionYears)
        /\ receipt.generatedAt.t = t

C29_BackupBeforePublish ==
  /\ \A id \in attempts : \E r \in backups : r.receiptId = id
  /\ \A w \in Workers :
       /\ facPc[w] = "publishing" => facOut[w].receipt \in backups
       /\ (facPc[w] = "complete" /\ facOut[w].response.success /\ facReq[w].compliance.present) =>
            /\ facOut[w].receipt \in backups
            /\ facOut[w].receipt.receiptId \in attempts

\* The publish of the receipt of a settled request failed: the response
\* has success=true and no receipt field, nothing is stored, and the
\* receipt is in the local backups.
C29_Witness ==
  /\ facPc["w1"] = "complete"
  /\ facOut["w1"].response.success
  /\ facReq["w1"].compliance.present
  /\ facOut["w1"].response.receipt = NoReceiptField
  /\ stored = <<>>
  /\ facOut["w1"].receipt \in backups
  /\ facOut["w1"].receipt.receiptId \in attempts

\* ----------------------------------------------------------------- C30
\* The outcomes of one authorization `c` submitted with the signature made
\* under `tamper`, in the (v, r, s) form and in the packed form of the same
\* signature: the two overloads of transferWithAuthorization, and of
\* receiveWithAuthorization as submitted by `sender`.
TransferBothWays(c, tamper) ==
  LET sig == AuthSig(tamper, TRANSFER_WITH_AUTHORIZATION_TYPEHASH, c.from, c.to, c.value, c.window[1], c.window[2], c.nonce)
  IN  [vrs |-> transferWithAuthorizationVRS(c.from, c.to, c.value, c.window[1], c.window[2], c.nonce, sig),
       packed |-> transferWithAuthorizationPacked(c.from, c.to, c.value, c.window[1], c.window[2], c.nonce, Packed(sig))]

ReceiveBothWays(sender, c, tamper) ==
  LET sig == AuthSig(tamper, RECEIVE_WITH_AUTHORIZATION_TYPEHASH, c.from, c.to, c.value, c.window[1], c.window[2], c.nonce)
  IN  [vrs |-> receiveWithAuthorizationVRS(sender, c.from, c.to, c.value, c.window[1], c.window[2], c.nonce, sig),
       packed |-> receiveWithAuthorizationPacked(sender, c.from, c.to, c.value, c.window[1], c.window[2], c.nonce, Packed(sig))]

C31_SettledAnswered200 ==
  /\ settleData.success =>
       /\ buyPc = "done"
       /\ buyResponse.status = 200
       /\ buyResponse.success
       /\ buyResponse.txHash = settleData.transaction
       /\ buyResponse.header =
            PaymentResponseHeader(TRUE, Undefined, settleData.transaction,
                                  settleData.network, settleData.payer)
  /\ \A p \in Payloads, env \in SettleEnv :
       LET sd == FacilitatorSettle(p, SomeCompliance, env).response
           r == BuyOnSettle([amount |-> One, paymentPayload |-> p, compliance |-> SomeCompliance],
                            sd, coffees).response
       IN  sd.success =>
             /\ r.status = 200
             /\ r.success
             /\ r.header.transaction = sd.transaction
             /\ r.header.network = sd.network
             /\ r.header.payer = sd.payer

\* A's payment under n1 was settled on the ledger and the receipt upload
\* failed: the request was answered 200 with the transfer's reference,
\* the network and the payer A in the header.
C31_Witness ==
  /\ buyPc = "done"
  /\ settleData.success
  /\ settleData.receipt = NoReceipt
  /\ buyReq.compliance = SomeCompliance
  /\ buyResponse.status = 200
  /\ buyResponse.header.transaction = "0xtx-A-n1"
  /\ buyResponse.header.network = NETWORK
  /\ buyResponse.header.payer = "A"
  /\ movedLog[<<"A", "n1">>] = 1

\* ----------------------------------------------------------------- C32
\* C32: the purchase count of a payer equals the sum of `amount` over the
\* requests of that payer whose settle returned success.
C32_CountEqualsSettledSum ==
  \A a \in Addr : coffees[a] = settledAmount[a]

\* The count changes only in the step that handles a successful /settle
\* answer: not on a validation, verification or settlement failure, nor in
\* a step of the ledger.
CountChangesOnlySettled ==
  [][coffees' # coffees =>
       /\ buyPc = "settle"
       /\ settleData'.success
       /\ buyResponse'.status = 200]_vars

\* With a whole count stored, a /settle answer of success adds the amount
\* of the request to the count of its payer and leaves the other counts; an
\* answer of failure leaves them all.
WholeCountsAdd ==
  \A n \in 0..3, amount \in {Half, One}, p \in Payloads, success \in BOOLEAN :
    LET cf == [a \in Addr |-> n * One]
        sd == [success |-> success, transaction |-> TxRef(p), network |-> NETWORK,
               payer |-> p.from, errorReason |-> IF success THEN Undefined ELSE "rejected",
               receipt |-> NoReceipt]
        r == BuyOnSettle([amount |-> amount, paymentPayload |-> p, compliance |-> NoCompliance],
                         sd, cf)
    IN  r.coffees = IF success THEN [cf EXCEPT ![p.from] = @ + amount] ELSE cf

SignaturesFor(primaryType) == {ExactSig(primaryType, c) : c \in AuthCalls}

\* C34: signatures are bound to their operation type.  In every reachable
\* state, no signature made for TransferWithAuthorization is accepted by
\* receiveWithAuthorization, whoever submits it and whatever fields it is
\* submitted with, nor by cancelAuthorization; and no signature made for
\* ReceiveWithAuthorization is accepted by transferWithAuthorization, in
\* either encoding.  Each such call leaves the storage as it was, so a
\* third party cannot settle a pull authorization through the push
\* function.
C34_SignatureBoundToType ==
  /\ \A c \in AuthCalls, sig \in SignaturesFor("TransferWithAuthorization") :
       /\ \A sender \in Submitters(c.to) :
            LET vrs == receiveWithAuthorizationVRS(sender, c.from, c.to, c.value, c.window[1],
                                                   c.window[2], c.nonce, sig)
                packed == receiveWithAuthorizationPacked(sender, c.from, c.to, c.value, c.window[1],
                                                         c.window[2], c.nonce, Packed(sig))
            IN  /\ vrs.reason # OK /\ vrs.st = Pre
                /\ packed.reason # OK /\ packed.st = Pre
       /\ LET out == cancelAuthorization(c.from, c.nonce, sig)
          IN  out.reason # OK /\ out.st = Pre
  /\ \A c \in AuthCalls, sig \in SignaturesFor("ReceiveWithAuthorization") :
       LET vrs == transferWithAuthorizationVRS(c.from, c.to, c.value, c.window[1], c.window[2],
                                               c.nonce, sig)
           packed == transferWithAuthorizationPacked(c.from, c.to, c.value, c.window[1],
                                                     c.window[2], c.nonce, Packed(sig))
       IN  /\ vrs.reason # OK /\ vrs.st = Pre
           /\ packed.reason # OK /\ packed.st = Pre
           /\ (InWindow(c) /\ ~authState[KeyOf(c)]) =>
                 (vrs.reason = "InvalidAuthorization" /\ packed.reason = "InvalidAuthorization")

\* A holds a token and has signed a pull authorization to B under n1; inside
\* its window a third party's transferWithAuthorization with that signature
\* is rejected as InvalidAuthorization, B's own receiveWithAuthorization
\* with it is accepted, and A's signature for TransferWithAuthorization over
\* the same fields is refused by receiveWithAuthorization and by
\* cancelAuthorization.
C34_Witness ==
  LET pull == ExactSig("ReceiveWithAuthorization", ScenarioAuth)
      push == ExactSig("TransferWithAuthorization", ScenarioAuth)
  IN  /\ balances["A"] >= 1
      /\ now = 2
      /\ ~authState[<<"A", "n1">>]
      /\ usedLog[<<"A", "n2">>] = 1
      /\ transferWithAuthorizationVRS("A", "B", 1, 1, 3, "n1", pull).reason = "InvalidAuthorization"
      /\ receiveWithAuthorizationVRS("B", "A", "B", 1, 1, 3, "n1", pull).reason = OK
      /\ receiveWithAuthorizationVRS("B", "A", "B", 1, 1, 3, "n1", push).reason = "InvalidAuthorization"
      /\ cancelAuthorization("A", "n1", push).reason = "InvalidAuthorization"
      /\ transferWithAuthorizationVRS("A", "B", 1, 1, 3, "n1", push).reason = OK

\* ----------------------------------------------------------------- C35
\* C35: the frame of a successful settle.  A transferWithAuthorization or
\* receiveWithAuthorization call that returns takes `value` from the
\* balance of `from` and adds `value` to the balance of `to` (both on the
\* one account when from = to), turns the one registry entry
\* (from, nonce) from unused to used, and leaves every other balance, every
\* other registry entry, the total supply, the underlying balances and the
\* reserves as they were; it logs one AuthorizationUsed and no cancellation.
C35_SettleFrame ==
  AllSettles(LAMBDA fn, c, sig, byReceiver, out :
    out.reason = OK =>
      /\ c.from # c.to =>
            /\ out.st.bal[c.from] = balances[c.from] - c.value
            /\ out.st.bal[c.to] = balances[c.to] + c.value
      /\ \A a \in Addr \ {c.from, c.to} : out.st.bal[a] = balances[a]
      /\ c.from = c.to => out.st.bal = balances
      /\ ~authState[KeyOf(c)]
      /\ \A k \in Key : out.st.auth[k] = (k = KeyOf(c) \/ authState[k])
      /\ out.st.supply = totalSupply
      /\ out.st.reserves = reserves
      /\ out.st.ubal = uBal
      /\ out.st.canceled = canceledLog
      /\ out.st.used = [usedLog EXCEPT ![KeyOf(c)] = @ + 1])

\* A holds two tokens, B none, and A's n2 is canceled: the scenario
\* authorization settles, by transferWithAuthorization and by B's
\* receiveWithAuthorization alike, leaving A with one token and B with one,
\* n1 of A used, and the other entries, the supply and the reserves as
\* they were.
C35_Witness ==
  LET t == Resubmit(ScenarioAuth)
      r == receiveWithAuthorizationVRS("B", "A", "B", 1, 1, 3, "n1",
                                       ExactSig("ReceiveWithAuthorization", ScenarioAuth))
  IN  /\ balances = [a \in Addr |-> IF a = "A" THEN 2 ELSE 0]
      /\ totalSupply = 2 /\ reserves = 2
      /\ canceledLog[<<"A", "n2">>] = 1
      /\ t.reason = OK /\ r.reason = OK /\ t.st = r.st
      /\ t.st.auth[<<"A", "n2">>] /\ ~t.st.auth[<<"B", "n1">>]
      /\ t.st.bal = [a \in Addr |-> 1]
      /\ t.st.auth[<<"A", "n1">>] /\ ~authState[<<"A", "n1">>]
      /\ t.st.supply = 2 /\ t.st.reserves = 2

\* ----------------------------------------------------------------- C36
\* C36: deposit mints what was received only when that is the amount.  For
\* every caller, amount, approval and behaviour of the underlying, a
\* deposit that returns has seen the reserves rise by exactly `amount` and
\* has minted exactly `amount` to the caller, changing no other wrapped
\* balance; when the underlying's transfer goes through but delivers
\* another amount, the deposit reverts with TransferAmountMismatch and the
\* whole storage, the caller's underlying balance and the reserves
\* included, is as before: nothing is minted and nothing is retained.
C36_DepositExact ==
  \A sender \in Addr, amount \in Amount, allowance \in Amount, fee \in Fees :
    LET out == depositFee(sender, amount, allowance, fee)
        goesThrough == amount > 0 /\ uBal[sender] >= amount /\ allowance >= amount
    IN  /\ out.reason = OK =>
              /\ fee = 0 /\ goesThrough
              /\ out.st.reserves = reserves + amount
              /\ out.st.ubal = [uBal EXCEPT ![sender] = @ - amount]
              /\ out.st.bal = [balances EXCEPT ![sender] = @ + amount]
              /\ out.st.supply = totalSupply + amount
              /\ out.st.auth = authState
        /\ (goesThrough /\ fee # 0) =>
              (out.reason = "TransferAmountMismatch" /\ out.st = Pre)
        /\ (goesThrough /\ fee = 0) => out.reason = OK
        /\ out.reason # OK => out.st = Pre
        /\ fee = 0 => out = deposit(sender, amount, allowance)

\* A has deposited one token and holds one more underlying: its next
\* deposit of 1 mints 1 with a standard underlying and is rejected with
\* TransferAmountMismatch when the underlying keeps a fee of 1 or adds 1.
C36_Witness ==
  /\ balances["A"] = 1 /\ totalSupply = 1 /\ reserves = 1
  /\ uBal["A"] >= 1
  /\ depositFee("A", 1, 1, 0).reason = OK
  /\ depositFee("A", 1, 1, 0).st.bal["A"] = 2
  /\ depositFee("A", 1, 1, 1).reason = "TransferAmountMismatch"
  /\ depositFee("A", 1, 1, -1).reason = "TransferAmountMismatch"
  /\ depositFee("A", 1, 1, 1).st = Pre

\* ----------------------------------------------------------------- C37
\* C37: deposit(0) and redeem(0) are rejected (AmountMustBeGreaterThanZero),
\* whoever calls and whatever was approved, and redeem(amount) with amount
\* above the caller's wrapped balance is rejected with InsufficientBalance;
\* each of these rejections leaves the wrapped balances, the total supply,
\* the reserves and the rest of the storage as they were.
C37_ZeroAndOverdraw ==
  \A sender \in Addr :
    /\ \A allowance \in Amount :
         LET d == deposit(sender, 0, allowance)
         IN  d.reason = "AmountMustBeGreaterThanZero" /\ d.st = Pre
    /\ LET r == redeem(sender, 0)
       IN  r.reason = "AmountMustBeGreaterThanZero" /\ r.st = Pre
    /\ \A amount \in 1..(MaxFunds + 1) :
         amount > balances[sender] =>
           LET r == redeem(sender, amount)
           IN  /\ r.reason = "InsufficientBalance"
               /\ r.st.bal = balances
               /\ r.st.supply = totalSupply
               /\ r.st.reserves = reserves
               /\ r.st = Pre

\* A and B hold one wrapped token each, A's n1 having been settled: A's deposit(0) and redeem(0) are rejected, A's redeem(2) is
\* rejected with InsufficientBalance although the reserves hold 2, and A's
\* redeem(1) is accepted.
C37_Witness ==
  /\ balances["A"] = 1 /\ balances["B"] = 1
  /\ reserves = 2
  /\ movedLog[<<"A", "n1">>] = 1
  /\ deposit("A", 0, 1).reason = "AmountMustBeGreaterThanZero"
  /\ redeem("A", 0).reason = "AmountMustBeGreaterThanZero"
  /\ redeem("A", 2).reason = "InsufficientBalance"
  /\ redeem("A", 1).reason = OK

\* ----------------------------------------------------------------- C38
\* Math.floor(cost * 100).toString() for cost = amount * 0.01: the whole
\* cents of the cost, in decimal.
costInCents(amount) == ToString(amount \div One)

\* parseUnits(cost.toString(), 18).toString() for cost = amount * 0.01: the
\* cost in units of 10^-18, in decimal (a half coffee costs 5 * 10^15).
costInWei(amount) == ToString(5 * amount) \o "000000000000000"

\* buildPaymentRequirementsResponse(amount, payTo, assetAddress): the entry
\* of `accepts` in the body of a 402.
buildPaymentRequirementsResponse(amount, payTo) ==
  [scheme |-> "exact", network |-> NETWORK, maxAmountRequired |-> costInCents(amount),
   payTo |-> payTo]

\* The paymentRequirements the handler sends to /verify and /settle.
paymentRequirements(amount) ==
  [scheme |-> "exact", network |-> NETWORK, maxAmountRequired |-> costInWei(amount),
   payTo |-> PAY_TO]

\* The paymentRequirements of the first version of the server.
paymentRequirementsInCents(amount) ==
  [scheme |-> "exact", network |-> NETWORK, maxAmountRequired |-> costInCents(amount),
   payTo |-> PAY_TO]

\* C38: for every purchase amount the maxAmountRequired advertised in the
\* 402 is the one sent to the facilitator: a request that was sent to
\* /verify and answered 402 advertised the maxAmountRequired it sent.
C38_SameMaxAmountRequired ==
  (buyPc = "done" /\ buyResponse.status = 402 /\ buyCalls.verify > 0) =>
    buildPaymentRequirementsResponse(buyReq.amount, PAY_TO).maxAmountRequired
      = paymentRequirements(buyReq.amount).maxAmountRequired

\* The two differ for every amount the handler accepts.
MaxAmountsAlwaysDiffer ==
  \A amount \in Amounts :
    amount > 0 =>
      buildPaymentRequirementsResponse(amount, PAY_TO).maxAmountRequired
        # paymentRequirements(amount).maxAmountRequired

\* In the first version of the server both are the whole cents of the cost,
\* and the other fields agree in both versions.
FirstVersionAgrees ==
  \A amount \in Amounts :
    amount > 0 =>
      /\ buildPaymentRequirementsResponse(amount, PAY_TO) = paymentRequirementsInCents(amount)
      /\ [buildPaymentRequirementsResponse(amount, PAY_TO) EXCEPT !.maxAmountRequired = ""]
           = [paymentRequirements(amount) EXCEPT !.maxAmountRequired = ""]

====
